---- MODULE Spec2Model ----
(***************************************************************************)
(* A model of the dataset pipeline of lora-sftuner:                        *)
(*   - processing/sft_unify_and_split.py : unify_datasets, split_dataset   *)
(*   - importers/sql_importer.py         : process_database                *)
(*   - importers/twitter_api_importer.py : sync_tweets                     *)
(*   - importers/docs_importer.py        : process_documents               *)
(*                                                                         *)
(* Text is a sequence of one-character strings, so that the normalisation  *)
(* functions are computed character by character as the code's regular     *)
(* expressions compute them.  A SHA-256 digest is represented by the text  *)
(* that is hashed (the digest is treated as collision free).               *)
(***************************************************************************)
EXTENDS Integers, Sequences, FiniteSets, TLC

(***************************************************************************)
(* Generic helpers on sequences                                            *)
(***************************************************************************)
Range(s) == {s[i] : i \in 1..Len(s)}

IsPrefix(s, t) == Len(s) <= Len(t) /\ SubSeq(t, 1, Len(s)) = s

StartsWith(t, p) == IsPrefix(p, t)

SeqsUpTo(S, n) == UNION {[1..k -> S] : k \in 0..n}

Max2(a, b) == IF a >= b THEN a ELSE b

(***************************************************************************)
(* Text normalisation: _norm_text                                          *)
(***************************************************************************)
\* The characters Python's \s and str.strip() treat as whitespace, restricted
\* to those that occur in the model's texts.
IsWS(c) == c \in {" ", "\n", "\t"}

\* str.lower() on one character (the upper-case letters of the model's texts).
LowerChar(c) ==
    CASE c = "H" -> "h"
      [] c = "R" -> "r"
      [] c = "T" -> "t"
      [] c = "W" -> "w"
      [] c = "A" -> "a"
      [] c = "B" -> "b"
      [] OTHER -> c

Lower(t) == [i \in 1..Len(t) |-> LowerChar(t[i])]

RECURSIVE LStrip(_)
LStrip(t) == IF t # <<>> /\ IsWS(t[1]) THEN LStrip(Tail(t)) ELSE t

RECURSIVE RStrip(_)
RStrip(t) ==
    IF t # <<>> /\ IsWS(t[Len(t)]) THEN RStrip(SubSeq(t, 1, Len(t) - 1)) ELSE t

\* str.strip()
Strip(t) == RStrip(LStrip(t))

\* Index of the first ">" at or after position i, 0 when there is none.
RECURSIVE FirstGt(_, _)
FirstGt(t, i) ==
    IF i > Len(t) THEN 0
    ELSE IF t[i] = ">" THEN i
    ELSE FirstGt(t, i + 1)

\* re.sub(r"<[^>]+>", " ", t), scanning from position i: a "<", one or more
\* characters other than ">", then ">", becomes one space.
RECURSIVE StripTagsFrom(_, _)
StripTagsFrom(t, i) ==
    IF i > Len(t) THEN <<>>
    ELSE IF t[i] = "<" /\ FirstGt(t, i + 1) >= i + 2
         THEN <<" ">> \o StripTagsFrom(t, FirstGt(t, i + 1) + 1)
         ELSE <<t[i]>> \o StripTagsFrom(t, i + 1)

StripTags(t) == StripTagsFrom(t, 1)

\* html.unescape: the named references of the html5 table that can be spelled
\* with the model's characters, with and without the closing semicolon.
EntityNames ==
    { <<"a", "m", "p", ";">>, <<"a", "m", "p">>,
      <<"l", "t", ";">>, <<"l", "t">>,
      <<"g", "t", ";">>, <<"g", "t">> }

EntityChar(name) ==
    CASE name[1] = "a" -> "&"
      [] name[1] = "l" -> "<"
      [] OTHER -> ">"

\* The characters that end a reference name: [^\t\n\f <&#;]
NameStop == {"\t", "\n", " ", "<", "&", "#", ";"}

\* Last index of the run of name characters that starts at i (i - 1 if empty).
RECURSIVE NameRunEnd(_, _, _)
NameRunEnd(t, i, n) ==
    IF i > Len(t) \/ n = 0 \/ t[i] \in NameStop THEN i - 1
    ELSE NameRunEnd(t, i + 1, n - 1)

\* html.unescape's replace_charref on the matched name s (the text after "&"):
\* the name itself, else its longest prefix of length >= 2 that is a reference.
RECURSIVE ReplaceCharref(_, _)
ReplaceCharref(s, x) ==
    IF x = Len(s) /\ s \in EntityNames THEN <<EntityChar(s)>>
    ELSE IF x < Len(s) /\ x >= 2 /\ SubSeq(s, 1, x) \in EntityNames
         THEN <<EntityChar(SubSeq(s, 1, x))>> \o SubSeq(s, x + 1, Len(s))
    ELSE IF x <= 2 THEN <<"&">> \o s
    ELSE ReplaceCharref(s, x - 1)

RECURSIVE UnescapeFrom(_, _)
UnescapeFrom(t, i) ==
    IF i > Len(t) THEN <<>>
    ELSE IF t[i] = "&" /\ NameRunEnd(t, i + 1, 32) >= i + 1
         THEN LET e == NameRunEnd(t, i + 1, 32)
                  last == IF e < Len(t) /\ t[e + 1] = ";" THEN e + 1 ELSE e
                  s == SubSeq(t, i + 1, last)
              IN ReplaceCharref(s, Len(s)) \o UnescapeFrom(t, last + 1)
         ELSE <<t[i]>> \o UnescapeFrom(t, i + 1)

Unescape(t) == UnescapeFrom(t, 1)

\* re.sub(r"\s+", " ", t): each maximal run of whitespace becomes one space.
RECURSIVE CollapseWS(_)
CollapseWS(t) ==
    IF t = <<>> THEN <<>>
    ELSE IF IsWS(t[1])
         THEN <<" ">> \o CollapseWS(LStrip(t))
         ELSE <<t[1]>> \o CollapseWS(Tail(t))

\* _norm_text
NormText(t) ==
    IF t = <<>> THEN <<>>
    ELSE Strip(CollapseWS(Unescape(StripTags(t))))

(***************************************************************************)
(* Bounds of the model                                                     *)
(***************************************************************************)
\* Messages of the one long record of a unify input.
MaxMsgs == 4
\* Records of a unify input made of short records.
MaxRows == 2
\* Seeds of the shuffle are 0..MaxSeed.
MaxSeed == 1

(***************************************************************************)
(* The texts of the model                                                  *)
(***************************************************************************)
T_Hello == <<"H", "e", "l", "l", "o">>
T_hello == <<"h", "e", "l", "l", "o">>
T_hello2 == <<"h", "e", "l", "l", "o", " ", " ">>
T_Hi == <<"H", "i">>
T_hi == <<"h", "i">>
T_dots == <<".", ".", ".">>
T_blank == <<" ">>
T_tag == <<"<", "b", ">">>
T_RT == <<"R", "T", " ", "@", "a">>
T_RTFM == <<"R", "T", "F", "M">>
T_WriteA == <<"W", "r", "i", "t", "e", " ", "a">>
T_AmpB == <<"a", "&", "a", "m", "p", ";", "b">>
T_AandB == <<"a", "&", "b">>
T_empty == <<>>

(***************************************************************************)
(* Roles and alternation: _map_role, _enforce_alternation                  *)
(***************************************************************************)
\* (role or "").strip().lower() on the role strings of the model; NoRole is a
\* message without a role.
NoRole == "<none>"

StripLowerRole(role) ==
    CASE role = NoRole -> ""
      [] role = "Model" -> "model"
      [] role = " user " -> "user"
      [] OTHER -> role

\* _map_role
MapRole(role) ==
    LET r == StripLowerRole(role)
    IN  IF r \in {"assistant", "model"} THEN "assistant"
        ELSE IF r \in {"user", "system"} THEN r
        ELSE "user"

Msg(r, c) == [role |-> r, content |-> c]

\* Step 1 of _enforce_alternation: merge consecutive messages of one role,
\* joining their contents with a blank line and stripping the result.
RECURSIVE MergeSameRole(_, _)
MergeSameRole(merged, rest) ==
    IF rest = <<>> THEN merged
    ELSE LET msg == Head(rest)
             n == Len(merged)
         IN  IF n > 0 /\ merged[n].role = msg.role
             THEN MergeSameRole(
                    [merged EXCEPT ![n].content =
                        Strip(merged[n].content \o <<"\n", "\n">> \o msg.content)],
                    Tail(rest))
             ELSE MergeSameRole(Append(merged, msg), Tail(rest))

\* Step 2 left out: the conversation is taken as it starts.
InsertPromptNever(merged) == merged

\* Step 2: a conversation that opens on the assistant gets a synthetic prompt.
InsertPrompt(merged) ==
    IF merged = <<>> \/ merged[1].role = "assistant"
    THEN <<Msg("user", T_dots)>> \o merged
    ELSE merged

\* Step 3: a conversation that does not close on the assistant loses its last
\* message (one message, once).
DropTrailing(merged) ==
    IF merged[Len(merged)].role # "assistant"
    THEN SubSeq(merged, 1, Len(merged) - 1)
    ELSE merged

\* TurnsAlternate without the loop that compares each role with the expected one.
TurnsAlternateNoRoleCheck(turns) == turns # <<>> /\ Len(turns) % 2 = 0

\* Step 4: the turns after an optional leading system message must be an even,
\* non-zero number and alternate user, assistant.
TurnsAlternate(turns) ==
    /\ turns # <<>>
    /\ Len(turns) % 2 = 0
    /\ \A i \in 1..Len(turns) :
          turns[i].role = (IF i % 2 = 1 THEN "user" ELSE "assistant")

\* _enforce_alternation; None is the empty list (the caller tests "not fixed_msgs").
EnforceAlternation(cleaned) ==
    IF cleaned = <<>> THEN <<>>
    ELSE LET merged == DropTrailing(InsertPrompt(MergeSameRole(<<>>, cleaned)))
             hasSystem == merged # <<>> /\ merged[1].role = "system"
             turns == IF hasSystem THEN Tail(merged) ELSE merged
             final_chat == merged
         IN  IF ~TurnsAlternate(turns) THEN <<>>
             ELSE IF Len(final_chat) >= 2 THEN final_chat ELSE <<>>

(***************************************************************************)
(* _normalize_row, _is_generic_prompt, _hash_for_dedup                     *)
(***************************************************************************)
\* The messages kept by the comprehension of _normalize_row: those whose raw
\* content is truthy, with the role mapped and the content normalised.
RECURSIVE CleanMessages(_)
CleanMessages(msgs) ==
    IF msgs = <<>> THEN <<>>
    ELSE LET m == Head(msgs)
         IN  IF m.content = <<>> THEN CleanMessages(Tail(msgs))
             ELSE <<Msg(MapRole(m.role), NormText(m.content))>>
                    \o CleanMessages(Tail(msgs))

\* A JSON value in the place of a message that is not an object, and a
\* content that is a truthy value other than a string (a number, a list).
\* A content that is missing, null or another falsy value is the empty
\* content: the comprehension drops all of them alike.
NotAnObject == Msg("<not an object>", <<>>)

NonString == <<"<not a string>">>

\* The comprehension of _normalize_row raises on such a message: m.get of a
\* value that is not an object, re.sub on a content that is not a string.
MessageRaises(m) == m = NotAnObject \/ m.content = NonString

\* The retweet test of _normalize_row on the last cleaned message.
RetweetMarker == <<"r", "t">>

IsRetweetRow(cleaned_msgs) ==
    /\ cleaned_msgs # <<>>
    /\ cleaned_msgs[Len(cleaned_msgs)].role = "assistant"
    /\ StartsWith(Lower(Strip(cleaned_msgs[Len(cleaned_msgs)].content)), RetweetMarker)

\* The messages field of the row is a list.
IsList(row) == row.shape = "list"

\* _normalize_row raises instead of returning.
RowRaises(row) ==
    IsList(row) /\ \E i \in 1..Len(row.messages) : MessageRaises(row.messages[i])

\* _normalize_row: valid = FALSE stands for None (also where it raises).
NormalizeRow(row) ==
    LET cleaned_msgs == CleanMessages(row.messages)
        fixed_msgs == EnforceAlternation(cleaned_msgs)
    IN  IF ~IsList(row) \/ RowRaises(row) THEN [valid |-> FALSE, messages |-> <<>>]
        ELSE IF IsRetweetRow(cleaned_msgs) THEN [valid |-> FALSE, messages |-> <<>>]
        ELSE IF fixed_msgs = <<>> THEN [valid |-> FALSE, messages |-> <<>>]
        ELSE [valid |-> TRUE, messages |-> fixed_msgs]

\* _is_generic_prompt without the comparison with the placeholder.
IsGenericPromptWriteOnly(prompt) == StartsWith(Lower(prompt), Lower(T_WriteA))

\* _is_generic_prompt
IsGenericPrompt(prompt) ==
    Lower(prompt) = T_dots \/ StartsWith(Lower(prompt), Lower(T_WriteA))

SelectRole(msgs, r) == SelectSeq(msgs, LAMBDA m : m.role = r)

\* The generic-prompt filter of unify_datasets on a normalised row.
HasGenericPrompt(messages) ==
    LET user_turns == SelectRole(messages, "user")
    IN  user_turns # <<>> /\ IsGenericPrompt(user_turns[Len(user_turns)].content)

\* Index of the last message with the assistant role (0 when there is none).
RECURSIVE LastAssistant(_, _)
LastAssistant(messages, i) ==
    IF i = 0 THEN 0
    ELSE IF messages[i].role \in {"assistant", "model"} THEN i
    ELSE LastAssistant(messages, i - 1)

RECURSIVE Stitch(_)
Stitch(messages) ==
    IF messages = <<>> THEN <<>>
    ELSE IF Len(messages) = 1 THEN NormText(messages[1].content)
    ELSE NormText(messages[1].content) \o <<" ">> \o Stitch(Tail(messages))

\* _hash_for_dedup without the lower-casing.
HashForDedupNoLower(messages) ==
    LET i == LastAssistant(messages, Len(messages))
    IN  IF i > 0 THEN NormText(messages[i].content) ELSE Stitch(messages)

\* _hash_for_dedup: the digest is represented by the text that is hashed.
HashForDedup(messages) ==
    LET i == LastAssistant(messages, Len(messages))
    IN  IF i > 0 THEN Lower(NormText(messages[i].content))
        ELSE Lower(Stitch(messages))

(***************************************************************************)
(* State                                                                   *)
(***************************************************************************)
VARIABLES
    \* unify_datasets
    input_lines,    \* the lines of the input files, in input order
    pcU,            \* where unify_datasets is: "read", "loop" or "aborted"
    all_rows,       \* the records read from the input files, in input order
    opts,           \* shuffle, seed, drop_generic_prompts
    idx,            \* position of the normalise-and-deduplicate loop
    kept,           \* the survivors so far
    seen_hashes,    \* the dedup keys of the survivors so far
    unified,        \* the output file: exists, rows
    \* sync_tweets
    sopts,          \* bearer_token, no_quotes, min_len, exclude_sources
    remote,         \* the account's tweets, in posting order
    outFile,        \* the output JSONL file: its lines, in order
    stateFile,      \* the state file: exists, torn, start_time, last_run_at
    pcS,            \* where the running sync_tweets is ("idle": none runs)
    all_new_tweets, \* the tweets the fetch returned
    fetch_failed,   \* whether the fetch loop was cut short by a request failure
    new_examples,   \* the examples the run built
    newest_time,    \* the newest created_at the run tracked
    runs,           \* the number of runs started (the clock of last_run_at)
    quiet,          \* a run fetched everything and nothing was posted since
    \* process_documents
    dopts,          \* min_chars, max_chars, delete_missing
    disk,           \* the file tree: per file, present, mtime, paragraphs
    edits,          \* the number of changes made to the tree (the clock of mtime)
    outFileD,       \* the output JSONL file: its lines, in order
    stateFileD,     \* the state file: exists, files, last_run_at
    pcD,            \* where the running process_documents is ("idle": none runs)
    dstate,         \* the files mapping of the state held in memory
    todo,           \* the files of the scan not yet visited
    seen_files,     \* the files visited
    runsD,          \* the number of runs started (the clock of last_run_at)
    settled,        \* a run has completed and the tree was not changed since
    \* split_dataset
    splitIn,        \* the input file: its rows, in order
    trainFile,      \* the train output file: exists, rows
    evalFile,       \* the eval output file: exists, rows
    lastSplit,      \* the arguments and the result of the latest split run
    splits,         \* the number of split runs made
    \* process_database behind sql_import_cmd
    sqlCfg,         \* the sidecar: exists, table_name, column_names
    sqlArgs,        \* user_nick, max_context, strip_self_context
    sqlDb,          \* the rows of the table, in query order
    sqlOut,         \* the output file: exists, rows
    pcQ,            \* where process_database is
    sqlTodo,        \* the rows of the query not yet visited
    sqlExit         \* the exit status of the command (-1 while it runs)

varsUnify == <<input_lines, pcU, all_rows, opts, idx, kept, seen_hashes, unified>>

varsSync == <<sopts, remote, outFile, stateFile, pcS, all_new_tweets,
              fetch_failed, new_examples, newest_time, runs, quiet>>

varsDocs == <<dopts, disk, edits, outFileD, stateFileD, pcD, dstate, todo,
              seen_files, runsD, settled>>

varsSplit == <<splitIn, trainFile, evalFile, lastSplit, splits>>

varsSql == <<sqlCfg, sqlArgs, sqlDb, sqlOut, pcQ, sqlTodo, sqlExit>>

VARIABLES
    fRemote,        \* _fetch_tweets_since: the pages the remote holds, oldest request first
    next_token,     \* the token of the page to ask for next (0: None)
    pagination_token, \* params["pagination_token"] (0: not set)
    yielded,        \* the items yielded so far
    requests,       \* the requests sent: the token of each and the status of its answer
    waits,          \* the sleeps made, in seconds
    pcF             \* "loop" at the head of the loop, "sleep" in time.sleep, "done" after a break

varsFetch == <<fRemote, next_token, pagination_token, yielded, requests, waits, pcF>>

VARIABLES
    aSrc,           \* process_archive: what archive_path is
    aItems,         \* the items of the tweets file, in file order
    aOpts,          \* include_replies, no_quotes, dialog, eval_pct
    pcA,            \* "load", "filter", "build", "done" or "aborted"
    aUnified,       \* unified
    aIdx,           \* position of the running loop
    aKept,          \* kept
    aSeen,          \* seen_hashes
    aRows,          \* rows
    aOut,           \* the primary output file
    aEval           \* the eval output file

varsArchive == <<aSrc, aItems, aOpts, pcA, aUnified, aIdx, aKept, aSeen, aRows, aOut, aEval>>

vars == <<varsUnify, varsSync, varsDocs, varsSplit, varsSql, varsFetch, varsArchive>>

(***************************************************************************)
(* unify_datasets                                                          *)
(***************************************************************************)
\* A record of an input file: shape tells whether its messages field is a
\* list, is missing, or holds a value that is not a list.
Row(msgs) == [messages |-> msgs, shape |-> "list"]

ShapedRow(shape) == [messages |-> <<>>, shape |-> shape]

\* A line of an input file: json tells whether the line is blank, is not
\* valid JSON, is a JSON value that is not an object, or is an object.
Line(json, row) == [json |-> json, row |-> row]

ObjectLines(rows) == [i \in 1..Len(rows) |-> Line("object", rows[i])]

\* The long records: every sequence of at most MaxMsgs messages over three
\* roles, the user's and the model's with two contents.
WideMsgs ==
    {Msg(r, c) : r \in {"user", "model"}, c \in {T_hi, T_Hello}} \cup {Msg("system", T_hi)}

WideRows == {Row(m) : m \in SeqsUpTo(WideMsgs, MaxMsgs)}

\* The short records: pairs and triples that differ in case, entities,
\* whitespace, markup, role spelling, prompt and retweet marker.
NarrowRows ==
    { Row(<<Msg("model", T_Hello), Msg("user", T_hi)>>),
      Row(<<Msg("user", T_Hi), Msg("model", T_hello)>>),
      Row(<<Msg(" user ", T_hi), Msg("assistant", T_hello2)>>),
      Row(<<Msg("user", T_hi), Msg("Model", T_AmpB)>>),
      Row(<<Msg(NoRole, T_Hi), Msg("model", T_AandB)>>),
      Row(<<Msg("user", T_WriteA), Msg("model", T_Hi)>>),
      Row(<<Msg("user", T_hi), Msg("model", T_RT), Msg("user", T_Hi)>>),
      Row(<<Msg("user", T_hi), Msg("model", T_RT)>>),
      Row(<<Msg("user", T_hi), Msg("model", T_RTFM)>>),
      Row(<<Msg("user", T_tag), Msg("model", T_hi)>>),
      Row(<<Msg("user", T_blank), Msg("tool", T_hi), Msg("model", T_Hello)>>),
      Row(<<Msg("user", T_empty), Msg("model", T_hello)>>) }

\* The inputs of a run: one long record, or at most MaxRows short records.
Inputs == {<<r>> : r \in WideRows} \cup SeqsUpTo(NarrowRows, MaxRows)

\* Lines that are not a well-formed record, and two that are.
MalformedLines ==
    { Line("blank", ShapedRow("none")),
      Line("invalid", ShapedRow("none")),
      Line("non_object", ShapedRow("none")),
      Line("object", ShapedRow("missing")),
      Line("object", ShapedRow("not_list")),
      Line("object", Row(<<Msg("user", T_hi), NotAnObject>>)),
      Line("object", Row(<<Msg("user", NonString), Msg("model", T_hello)>>)) }

GoodLines ==
    { Line("object", Row(<<Msg("user", T_Hi), Msg("model", T_hello)>>)),
      Line("object", Row(<<Msg("user", T_hi), Msg("model", T_AandB)>>)) }

\* The input files of a run: well-formed records only, or two lines of which
\* any may be malformed.
InputFiles ==
    {ObjectLines(rows) : rows \in Inputs}
      \cup {<<a, b>> : a \in MalformedLines \cup GoodLines, b \in MalformedLines \cup GoodLines}

\* _iter_jsonl: blank lines and lines that are not valid JSON are skipped;
\* the item assignment row["source_file"] raises on a value that is not an
\* object, and only json.JSONDecodeError is caught.
IterJsonlRaises(file) == \E i \in 1..Len(file) : file[i].json = "non_object"

RECURSIVE IterJsonl(_)
IterJsonl(file) ==
    IF file = <<>> THEN <<>>
    ELSE IF Head(file).json = "object" THEN <<Head(file).row>> \o IterJsonl(Tail(file))
    ELSE IterJsonl(Tail(file))

Options ==
    [drop_generic_prompts : BOOLEAN, shuffle : {FALSE}, seed : {0}]
      \cup [drop_generic_prompts : BOOLEAN, shuffle : {TRUE}, seed : 0..MaxSeed]

\* The k-th draw below n of random.Random(seed): a fixed function of the seed
\* and the position in the stream (a stand-in for the Mersenne Twister).
RandBelow(seed, k, n) == (3 * seed + 2 * k + 1) % n

\* random.shuffle: for i from the last index down to the second, swap x[i]
\* with x[j], j drawn below i + 1 (indices from 0 in the code, from 1 here).
RECURSIVE ShuffleFrom(_, _, _)
ShuffleFrom(x, seed, i) ==
    IF i < 2 THEN x
    ELSE LET j == RandBelow(seed, Len(x) - i, i) + 1
         IN  ShuffleFrom([x EXCEPT ![i] = x[j], ![j] = x[i]], seed, i - 1)

\* A shuffle that draws from a generator shared by the runs, not from
\* random.Random(seed).
ShuffleUnseeded(x, seed) == ShuffleFrom(x, splits, Len(x))

\* A shuffle that draws every position anew, so that a row may come twice.
ShuffleWithRepeats(x, seed) == [i \in 1..Len(x) |-> x[RandBelow(seed, i, Len(x)) + 1]]

Shuffle(x, seed) == ShuffleFrom(x, seed, Len(x))

\* The tests of the loop body of unify_datasets, in the code's order.
RowRejected(row) == ~NormalizeRow(row).valid

RowGeneric(row, drop) == drop /\ HasGenericPrompt(NormalizeRow(row).messages)

RowSurvives(row, drop) == ~RowRejected(row) /\ ~RowGeneric(row, drop)

RowDuplicate(row, seen) == HashForDedup(NormalizeRow(row).messages) \in seen

\* A loop body that computes and registers the key before the generic-prompt
\* filter.
SeenAfterHashFirst(seen, row, drop) ==
    IF RowRejected(row) THEN seen
    ELSE seen \cup {HashForDedup(NormalizeRow(row).messages)}

\* seen_hashes after the loop body for row: the key is added on the one path
\* that reaches seen_hashes.add, after every `continue`.
SeenAfter(seen, row, drop) ==
    IF RowRejected(row) \/ RowGeneric(row, drop) \/ RowDuplicate(row, seen) THEN seen
    ELSE seen \cup {HashForDedup(NormalizeRow(row).messages)}

InitUnifyVars ==
    /\ input_lines \in InputFiles
    /\ pcU = "read"
    /\ all_rows = <<>>
    /\ opts \in Options
    /\ idx = 1
    /\ kept = <<>>
    /\ seen_hashes = {}
    /\ unified = [exists |-> FALSE, rows |-> <<>>]

\* The input files are read into all_rows; an exception of _iter_jsonl ends
\* the command.
ReadFiles ==
    /\ pcU = "read"
    /\ IF IterJsonlRaises(input_lines)
       THEN pcU' = "aborted" /\ UNCHANGED all_rows
       ELSE pcU' = "loop" /\ all_rows' = IterJsonl(input_lines)
    /\ UNCHANGED <<input_lines, opts, idx, kept, seen_hashes, unified>>
    /\ UNCHANGED <<varsSync, varsDocs, varsSplit, varsSql, varsFetch, varsArchive>>

\* One iteration of the loop of unify_datasets; an exception of
\* _normalize_row ends the command.
ProcessRow ==
    /\ pcU = "loop"
    /\ ~unified.exists
    /\ idx <= Len(all_rows)
    /\ LET row == all_rows[idx]
           norm_row == NormalizeRow(row)
           h == HashForDedup(norm_row.messages)
       IN  IF RowRaises(row)
           THEN pcU' = "aborted" /\ UNCHANGED <<kept, seen_hashes, idx>>
           ELSE /\ seen_hashes' = SeenAfter(seen_hashes, row, opts.drop_generic_prompts)
                /\ IF \/ RowRejected(row)
                      \/ RowGeneric(row, opts.drop_generic_prompts)
                      \/ RowDuplicate(row, seen_hashes)
                   THEN UNCHANGED kept
                   ELSE kept' = Append(kept, [messages |-> norm_row.messages])
                /\ idx' = idx + 1
                /\ UNCHANGED pcU
    /\ UNCHANGED <<input_lines, all_rows, opts, unified>>
    /\ UNCHANGED <<varsSync, varsDocs, varsSplit, varsSql, varsFetch, varsArchive>>

\* After the loop: shuffle when asked, then _save_jsonl.
SaveUnified ==
    /\ pcU = "loop"
    /\ ~unified.exists
    /\ idx > Len(all_rows)
    /\ kept' = (IF opts.shuffle THEN Shuffle(kept, opts.seed) ELSE kept)
    /\ unified' = [exists |-> TRUE, rows |-> kept']
    /\ UNCHANGED <<input_lines, pcU, all_rows, opts, idx, seen_hashes>>
    /\ UNCHANGED <<varsSync, varsDocs, varsSplit, varsSql, varsFetch, varsArchive>>

NextUnify == ReadFiles \/ ProcessRow \/ SaveUnified


(***************************************************************************)
(* sync_tweets                                                             *)
(***************************************************************************)
\* Tweets on the remote account, runs of the command, and seconds of the clock
\* of created_at (second 0 is the default checkpoint 1970-01-01T00:00:00Z).
MaxTweets == 2
MaxRuns == 3
MaxTime == 2

\* The default of state.get("start_time", "1970-01-01T00:00:00Z"), in seconds.
DefaultStartTime == 0

\* A tweet: quoted or not, its source application, the length of its cleaned text.
TweetKinds ==
    { [quoted |-> FALSE, source |-> "web", len |-> 20],
      [quoted |-> TRUE,  source |-> "web", len |-> 20],
      [quoted |-> FALSE, source |-> "bot", len |-> 20],
      [quoted |-> FALSE, source |-> "web", len |-> 5] }

Tweet(i, t, k) ==
    [id |-> i, created_at |-> t, quoted |-> k.quoted, source |-> k.source, len |-> k.len]

SyncOptions ==
    { [bearer_token |-> FALSE, no_quotes |-> FALSE, min_len |-> 10, exclude_sources |-> {}],
      [bearer_token |-> TRUE,  no_quotes |-> FALSE, min_len |-> 0,  exclude_sources |-> {}],
      [bearer_token |-> TRUE,  no_quotes |-> TRUE,  min_len |-> 10, exclude_sources |-> {"bot"}] }

NoStateFile == [exists |-> FALSE, torn |-> FALSE, start_time |-> DefaultStartTime, last_run_at |-> 0]

\* _load_state followed by state.get("start_time", default): a missing file
\* and a file that is not valid JSON both give the default.
LoadStartTime(file) ==
    IF file.exists /\ ~file.torn THEN file.start_time ELSE DefaultStartTime

\* The last line of an output file whose writer was killed: the beginning of
\* a record, without the newline.
PartialLine == [tweet_id |-> -1]

\* A line that holds a partial record followed by a whole one: not JSON.
MalformedLine == [tweet_id |-> 0]

\* _scan_existing_ids without reading the file.
ScanNothing(file) == {}

\* _scan_existing_ids: the tweet_id of every line that parses.
ScanExistingIds(file) == {file[i].tweet_id : i \in {j \in 1..Len(file) : file[j].tweet_id > 0}}

RECURSIVE Reverse(_)
Reverse(q) == IF q = <<>> THEN <<>> ELSE Append(Reverse(Tail(q)), Head(q))

\* What the timeline endpoint returns for start_time: the tweets created at or
\* after it, newest first.
Timeline(start_time) ==
    Reverse(SelectSeq(remote, LAMBDA t : t.created_at >= start_time))

\* _fetch_tweets_since: the whole timeline, or the pages yielded before a
\* request failure broke the loop (a page holds one tweet here).
FetchResults(start_time) ==
    {[tweets |-> SubSeq(Timeline(start_time), 1, n),
      failed |-> n < Len(Timeline(start_time))] : n \in 0..Len(Timeline(start_time))}
      \cup {[tweets |-> <<>>, failed |-> TRUE]}

\* The filters of the processing loop that skip a fetched tweet.
Filtered(tweet, existing_ids, o) ==
    \/ tweet.id \in existing_ids
    \/ o.no_quotes /\ tweet.quoted
    \/ tweet.source \in o.exclude_sources
    \/ tweet.len < o.min_len

\* make_style_example: the line's identity (the messages are not modelled).
Example(tweet) == [tweet_id |-> tweet.id]

\* The processing loop of sync_tweets: the examples built and the newest
\* created_at among the tweets that passed the filters.
RECURSIVE ProcessTweets(_, _, _, _, _)
ProcessTweets(tweets, existing_ids, examples, newest, o) ==
    IF tweets = <<>> THEN [new_examples |-> examples, newest_time |-> newest]
    ELSE LET tweet == Head(tweets)
         IN  IF Filtered(tweet, existing_ids, o)
             THEN ProcessTweets(Tail(tweets), existing_ids, examples, newest, o)
             ELSE ProcessTweets(Tail(tweets), existing_ids \cup {tweet.id},
                                Append(examples, Example(tweet)),
                                IF tweet.created_at > newest THEN tweet.created_at ELSE newest,
                                o)

\* "if not new_examples: return", never taken.
NothingNewNever(examples, tweets) == FALSE

\* "if not new_examples: return", testing the fetched tweets instead.
NothingNewIfNothingFetched(examples, tweets) == tweets = <<>>

\* "if not new_examples: return"
NothingNew(examples, tweets) == examples = <<>>

\* The checkpoint of the end of a run, without the second added.
NextStartTimeNoAdvance(newest) == newest

\* The append of the new examples, done by overwriting the file.
WriteOverwrite(file, examples) == examples

\* out_path.open("a") and the writes of the examples, each followed by a
\* newline: the first one continues the last line of the file when that line
\* has no newline.
WriteAppend(file, examples) ==
    IF file # <<>> /\ file[Len(file)] = PartialLine /\ examples # <<>>
    THEN SubSeq(file, 1, Len(file) - 1) \o <<MalformedLine>> \o Tail(examples)
    ELSE file \o examples

\* The checkpoint of the end of a run: newest_time plus one second.
NextStartTime(newest) == newest + 1

InitSyncVars ==
    /\ sopts \in SyncOptions
    /\ remote = <<>>
    /\ outFile = <<>>
    /\ stateFile = NoStateFile
    /\ pcS = "idle"
    /\ all_new_tweets = <<>>
    /\ fetch_failed = FALSE
    /\ new_examples = <<>>
    /\ newest_time = DefaultStartTime
    /\ runs = 0
    /\ quiet = FALSE

\* The account posts a tweet: its id is new and its created_at is not before
\* that of an earlier tweet.
NewTweet ==
    /\ pcS = "idle"
    /\ Len(remote) < MaxTweets
    /\ \E k \in TweetKinds, t \in 1..MaxTime :
          /\ remote # <<>> => t >= remote[Len(remote)].created_at
          /\ remote' = Append(remote, Tweet(Len(remote) + 1, t, k))
    /\ quiet' = FALSE
    /\ UNCHANGED <<sopts, outFile, stateFile, pcS, all_new_tweets, fetch_failed,
                   new_examples, newest_time, runs>>
    /\ UNCHANGED <<varsUnify, varsDocs, varsSplit, varsSql, varsFetch, varsArchive>>

\* sync_tweets up to the test of new_examples: a missing token ends the run;
\* otherwise the state is loaded, the output scanned, the timeline fetched and
\* the tweets processed, and a run with nothing new returns.
SyncStart ==
    /\ pcS = "idle"
    /\ runs < MaxRuns
    /\ runs' = runs + 1
    /\ IF ~sopts.bearer_token
       THEN UNCHANGED <<pcS, all_new_tweets, fetch_failed, new_examples, newest_time, quiet>>
       ELSE \E f \in FetchResults(LoadStartTime(stateFile)) :
              LET start_time == LoadStartTime(stateFile)
                  r == ProcessTweets(f.tweets, ScanExistingIds(outFile), <<>>, start_time, sopts)
              IN  /\ all_new_tweets' = f.tweets
                  /\ fetch_failed' = f.failed
                  /\ new_examples' = r.new_examples
                  /\ newest_time' = r.newest_time
                  /\ pcS' = IF NothingNew(r.new_examples, f.tweets) THEN "idle" ELSE "append"
                  /\ quiet' = IF NothingNew(r.new_examples, f.tweets)
                              THEN quiet \/ ~f.failed
                              ELSE quiet
    /\ UNCHANGED <<sopts, remote, outFile, stateFile>>
    /\ UNCHANGED <<varsUnify, varsDocs, varsSplit, varsSql, varsFetch, varsArchive>>

\* The examples are appended to the output file.
SyncAppend ==
    /\ pcS = "append"
    /\ outFile' = WriteAppend(outFile, new_examples)
    /\ pcS' = "save"
    /\ UNCHANGED <<sopts, remote, stateFile, all_new_tweets, fetch_failed,
                   new_examples, newest_time, runs, quiet>>
    /\ UNCHANGED <<varsUnify, varsDocs, varsSplit, varsSql, varsFetch, varsArchive>>

\* The state _save_state writes: the checkpoint and the time of the run.
SavedState ==
    [exists |-> TRUE, torn |-> FALSE,
     start_time |-> NextStartTime(newest_time), last_run_at |-> runs]

\* The checkpoint is advanced and the state file written; the run ends.
SyncSave ==
    /\ pcS = "save"
    /\ stateFile' = SavedState
    /\ pcS' = "idle"
    /\ quiet' = (quiet \/ ~fetch_failed)
    /\ UNCHANGED <<sopts, remote, outFile, all_new_tweets, fetch_failed,
                   new_examples, newest_time, runs>>
    /\ UNCHANGED <<varsUnify, varsDocs, varsSplit, varsSql, varsFetch, varsArchive>>

\* The run is interrupted before the append or between the append and
\* _save_state.
SyncInterrupt ==
    /\ pcS \in {"append", "save"}
    /\ pcS' = "idle"
    /\ quiet' = FALSE
    /\ UNCHANGED <<sopts, remote, outFile, stateFile, all_new_tweets, fetch_failed,
                   new_examples, newest_time, runs>>
    /\ UNCHANGED <<varsUnify, varsDocs, varsSplit, varsSql, varsFetch, varsArchive>>

NextSync ==
    \/ NewTweet
    \/ SyncStart
    \/ SyncAppend
    \/ SyncSave
    \/ SyncInterrupt

\* path.write_text opens the state file for writing, which truncates it ...
SyncSaveOpen ==
    /\ pcS = "save"
    /\ stateFile' = [stateFile EXCEPT !.exists = TRUE, !.torn = TRUE]
    /\ pcS' = "saving"
    /\ UNCHANGED <<sopts, remote, outFile, all_new_tweets, fetch_failed,
                   new_examples, newest_time, runs, quiet>>
    /\ UNCHANGED <<varsUnify, varsDocs, varsSplit, varsSql, varsFetch, varsArchive>>

\* ... and then writes the JSON text and closes it.
SyncSaveWrite ==
    /\ pcS = "saving"
    /\ stateFile' = SavedState
    /\ pcS' = "idle"
    /\ quiet' = (quiet \/ ~fetch_failed)
    /\ UNCHANGED <<sopts, remote, outFile, all_new_tweets, fetch_failed,
                   new_examples, newest_time, runs>>
    /\ UNCHANGED <<varsUnify, varsDocs, varsSplit, varsSql, varsFetch, varsArchive>>

\* The process is killed at any point of a run.
SyncKill ==
    /\ pcS \in {"append", "save", "saving"}
    /\ pcS' = "idle"
    /\ quiet' = FALSE
    /\ UNCHANGED <<sopts, remote, outFile, stateFile, all_new_tweets, fetch_failed,
                   new_examples, newest_time, runs>>
    /\ UNCHANGED <<varsUnify, varsDocs, varsSplit, varsSql, varsFetch, varsArchive>>

\* The process is killed while it appends: the examples before some point
\* are in the file, and the one at that point in part.
SyncKillAppend ==
    /\ pcS = "append"
    /\ \E n \in 1..Len(new_examples) :
          outFile' = WriteAppend(outFile, SubSeq(new_examples, 1, n - 1) \o <<PartialLine>>)
    /\ pcS' = "idle"
    /\ quiet' = FALSE
    /\ UNCHANGED <<sopts, remote, stateFile, all_new_tweets, fetch_failed,
                   new_examples, newest_time, runs>>
    /\ UNCHANGED <<varsUnify, varsDocs, varsSplit, varsSql, varsFetch, varsArchive>>

NextSyncKill ==
    \/ NewTweet
    \/ SyncStart
    \/ SyncAppend
    \/ SyncSaveOpen
    \/ SyncSaveWrite
    \/ SyncKill
    \/ SyncKillAppend

(***************************************************************************)
(* process_documents                                                       *)
(***************************************************************************)
\* Changes made to the file tree, and runs of the command.
MaxEdits == 2
MaxDocRuns == 2

\* The supported files under the root.
DocFiles == {"a.txt", "b.md"}

\* The paragraphs a file can hold, as _split_paragraphs(_norm_ws(text)) returns
\* them; an empty list is a file without text.
DocContents ==
    { <<>>, <<T_Hi>>, <<T_hello>>, <<T_Hi, T_hello>>, <<T_Hi, T_Hi>>, <<T_hi, T_Hi>> }

\* The content of a file whose reader raises (the optional extractor of its
\* format is not installed, or the read fails).
Unreadable == <<<<"<unreadable>">>>>

\* The exception of the reader leaves the command ...
AfterReadErrorUncaught(pc) == "aborted"

\* ... or is caught by "except Exception", printed, and the loop continues.
AfterReadError(pc) == pc

DocsOptions ==
    { [min_chars |-> 1, max_chars |-> 10, delete_missing |-> FALSE],
      [min_chars |-> 3, max_chars |-> 10, delete_missing |-> TRUE],
      [min_chars |-> 1, max_chars |-> 4, delete_missing |-> TRUE] }

NoFile == [present |-> FALSE, mtime |-> 0, paras |-> <<>>]

\* _norm_text_for_hash and _sha256_text: entities unescaped, whitespace
\* collapsed, stripped and lower-cased; the digest is the text hashed.
Sha256Text(t) == Lower(Strip(CollapseWS(Unescape(t))))

\* stat().st_size: the characters of the paragraphs and of the blank lines
\* between them.
RECURSIVE TotalLen(_)
TotalLen(paras) ==
    IF paras = <<>> THEN 0 ELSE Len(Head(paras)) + 2 + TotalLen(Tail(paras))

StatOf(file) == [mtime |-> file.mtime, size |-> TotalLen(file.paras)]

\* state["files"].get(file_key, {}): no entry reads as no mtime, size, chunks.
NoInfo == [mtime |-> -1, size |-> -1, chunks |-> {}]

InfoOf(files, key) == IF key \in DOMAIN files THEN files[key] ELSE NoInfo

\* The incremental test: the stored mtime and size equal the file's.
FileUnchanged(info, stat) == info.mtime = stat.mtime /\ info.size = stat.size

\* "if h in info.get('chunks', [])", never true.
InChunksNever(h, info) == FALSE

\* "if h in info.get('chunks', [])"
InChunks(h, info) == h \in info.chunks

\* The paragraph loop: the lines written and the refreshed hash set.
RECURSIVE ChunkLoop(_, _, _, _, _, _)
ChunkLoop(paras, key, info, o, lines, new_hashes) ==
    IF paras = <<>> THEN [lines |-> lines, new_hashes |-> new_hashes]
    ELSE LET par == Head(paras)
             h == Sha256Text(par)
         IN  IF Len(par) < o.min_chars \/ Len(par) > o.max_chars
             THEN ChunkLoop(Tail(paras), key, info, o, lines, new_hashes)
             ELSE IF InChunks(h, info)
             THEN ChunkLoop(Tail(paras), key, info, o, lines, new_hashes \cup {h})
             ELSE ChunkLoop(Tail(paras), key, info, o,
                            Append(lines, [source |-> key, text |-> par]),
                            new_hashes \cup {h})

\* The assignment of a file's state entry, forgotten.
SetEntryForgotten(files, key, entry) == files

\* state["files"][file_key] = {...}
SetEntry(files, key, entry) ==
    [k \in DOMAIN files \cup {key} |-> IF k = key THEN entry ELSE files[k]]

\* The pruning of the entries of files that the scan did not see.
Prune(files, seen, delete_missing) ==
    IF delete_missing THEN [k \in DOMAIN files \cap seen |-> files[k]] ELSE files

NoFiles == [k \in {} |-> NoInfo]

\* The files of the scan, in the order of the directory walk.
RECURSIVE SeqOfSet(_)
SeqOfSet(S) ==
    IF S = {} THEN <<>>
    ELSE LET x == CHOOSE y \in S : TRUE IN <<x>> \o SeqOfSet(S \ {x})

\* What the state file holds: "state" is an object with a "files" object,
\* "invalid_json" is text that is not JSON, "undecodable" is bytes that are not
\* UTF-8, "list" is a JSON list, "no_files" is an object without "files".
StateKinds == {"state", "invalid_json", "undecodable", "list", "no_files"}

NoStateFileD == [exists |-> FALSE, kind |-> "state", files |-> NoFiles, last_run_at |-> 0]

\* A state file that is there and does not hold a state.
BadStateFile(kind) == [exists |-> TRUE, kind |-> kind, files |-> NoFiles, last_run_at |-> 0]

StateFilesD == {NoStateFileD} \cup {BadStateFile(k) : k \in StateKinds \ {"state"}}

\* _load_state: the default when the file is absent or is not JSON, the
\* exception of the decoder when the bytes are not text, and otherwise
\* whatever JSON value the file holds.
LoadStateD(file) ==
    IF ~file.exists \/ file.kind = "invalid_json"
    THEN [raises |-> FALSE, shape |-> "state", files |-> NoFiles]
    ELSE IF file.kind = "undecodable"
    THEN [raises |-> TRUE, shape |-> "state", files |-> NoFiles]
    ELSE [raises |-> FALSE, shape |-> file.kind, files |-> file.files]

DocsInitAt(sf) ==
    /\ dopts \in DocsOptions
    /\ disk = [f \in DocFiles |-> NoFile]
    /\ edits = 0
    /\ outFileD = <<>>
    /\ stateFileD = sf
    /\ pcD = "idle"
    /\ dstate = NoFiles
    /\ todo = <<>>
    /\ seen_files = {}
    /\ runsD = 0
    /\ settled = FALSE

InitDocsVars == DocsInitAt(NoStateFileD)

\* A file is created or rewritten: new paragraphs, a new mtime.
EditFile ==
    /\ pcD = "idle"
    /\ edits < MaxEdits
    /\ \E f \in DocFiles, c \in DocContents \cup {Unreadable} :
          /\ ~(disk[f].present /\ disk[f].paras = c)
          /\ disk' = [disk EXCEPT ![f] = [present |-> TRUE, mtime |-> edits + 1, paras |-> c]]
    /\ edits' = edits + 1
    /\ settled' = FALSE
    /\ UNCHANGED <<dopts, outFileD, stateFileD, pcD, dstate, todo, seen_files, runsD>>
    /\ UNCHANGED <<varsUnify, varsSync, varsSplit, varsSql, varsFetch, varsArchive>>

\* A file is deleted.
DeleteFile ==
    /\ pcD = "idle"
    /\ edits < MaxEdits
    /\ \E f \in DocFiles :
          /\ disk[f].present
          /\ disk' = [disk EXCEPT ![f] = NoFile]
    /\ edits' = edits + 1
    /\ settled' = FALSE
    /\ UNCHANGED <<dopts, outFileD, stateFileD, pcD, dstate, todo, seen_files, runsD>>
    /\ UNCHANGED <<varsUnify, varsSync, varsSplit, varsSql, varsFetch, varsArchive>>

\* The files below a folder of the tree that holds only a part of it.
SubFiles == {"b.md"}

\* root_path.rglob("*"): the supported files below root_path, which is the
\* whole tree ("tree") or the folder ("sub").
ScanRoot(root) ==
    {f \in DocFiles : disk[f].present /\ (root = "tree" \/ f \in SubFiles)}

\* process_documents up to its loop: the state is loaded and the tree scanned.
DocsStartAt(root) ==
    /\ pcD = "idle"
    /\ runsD < MaxDocRuns
    /\ runsD' = runsD + 1
    /\ dstate' = LoadStateD(stateFileD).files
    /\ todo' = SeqOfSet(ScanRoot(root))
    /\ seen_files' = {}
    /\ pcD' = (IF LoadStateD(stateFileD).raises THEN "aborted" ELSE "files")
    /\ UNCHANGED <<dopts, disk, edits, outFileD, stateFileD, settled>>
    /\ UNCHANGED <<varsUnify, varsSync, varsSplit, varsSql, varsFetch, varsArchive>>

\* A run over the whole tree.
DocsStart == DocsStartAt("tree")

\* A run with the same output and state files over the folder.
DocsStartSub == DocsStartAt("sub")

\* One iteration of the loop over the files.
DocsFile ==
    /\ pcD = "files"
    /\ todo # <<>>
    /\ LET key == Head(todo)
           stat == StatOf(disk[key])
           info == InfoOf(dstate, key)
           r == ChunkLoop(disk[key].paras, key, info, dopts, <<>>, {})
       IN  /\ seen_files' = seen_files \cup {key}
           /\ IF LoadStateD(stateFileD).shape # "state"
              THEN pcD' = "aborted" /\ UNCHANGED <<outFileD, dstate>>
              ELSE IF FileUnchanged(info, stat) \/ disk[key].paras = <<>>
              THEN UNCHANGED <<outFileD, dstate, pcD>>
              ELSE IF disk[key].paras = Unreadable
              THEN pcD' = AfterReadError(pcD) /\ UNCHANGED <<outFileD, dstate>>
              ELSE /\ outFileD' = outFileD \o r.lines
                   /\ dstate' = SetEntry(dstate, key,
                         [mtime |-> stat.mtime, size |-> stat.size, chunks |-> r.new_hashes])
                   /\ UNCHANGED pcD
    /\ todo' = Tail(todo)
    /\ UNCHANGED <<dopts, disk, edits, stateFileD, runsD, settled>>
    /\ UNCHANGED <<varsUnify, varsSync, varsSplit, varsSql, varsFetch, varsArchive>>

\* After the loop: the entries of missing files are pruned when asked, and
\* the state is saved.
DocsFinish ==
    /\ pcD = "files"
    /\ todo = <<>>
    /\ LET shape == LoadStateD(stateFileD).shape
       IN  IF shape = "list" \/ (shape = "no_files" /\ dopts.delete_missing)
           THEN pcD' = "aborted" /\ UNCHANGED <<dstate, stateFileD, settled>>
           ELSE /\ dstate' = Prune(dstate, seen_files, dopts.delete_missing)
                /\ stateFileD' = [exists |-> TRUE, kind |-> shape, files |-> dstate',
                                  last_run_at |-> runsD]
                /\ pcD' = "idle"
                /\ settled' = TRUE
    /\ UNCHANGED <<dopts, disk, edits, outFileD, todo, seen_files, runsD>>
    /\ UNCHANGED <<varsUnify, varsSync, varsSplit, varsSql, varsFetch, varsArchive>>

NextDocs ==
    \/ EditFile
    \/ DeleteFile
    \/ DocsStart
    \/ DocsFile
    \/ DocsFinish

\* The process is killed inside the loop over the files: what it appended
\* stays in the output, and _save_state is never reached.
DocsKill ==
    /\ pcD = "files"
    /\ pcD' = "idle"
    /\ UNCHANGED <<dopts, disk, edits, outFileD, stateFileD, dstate, todo, seen_files,
                   runsD, settled>>
    /\ UNCHANGED <<varsUnify, varsSync, varsSplit, varsSql, varsFetch, varsArchive>>

\* Between two runs the state file is deleted or overwritten with text that
\* is not JSON.
StateLost ==
    /\ pcD = "idle"
    /\ stateFileD.exists
    /\ stateFileD.kind = "state"
    /\ stateFileD' \in {NoStateFileD, BadStateFile("invalid_json")}
    /\ settled' = FALSE
    /\ UNCHANGED <<dopts, disk, edits, outFileD, pcD, dstate, todo, seen_files, runsD>>
    /\ UNCHANGED <<varsUnify, varsSync, varsSplit, varsSql, varsFetch, varsArchive>>

NextDocsKill ==
    \/ EditFile
    \/ DeleteFile
    \/ DocsStart
    \/ DocsFile
    \/ DocsFinish
    \/ DocsKill
    \/ StateLost

NextDocsRoots ==
    \/ EditFile
    \/ DeleteFile
    \/ DocsStart
    \/ DocsStartSub
    \/ DocsFile
    \/ DocsFinish

(***************************************************************************)
(* split_dataset                                                           *)
(***************************************************************************)
MaxSplitRows == 3
MaxSplits == 3

\* The input files: the rows are told apart by a number; a file holds rows
\* 1..n, rows 11..(10+n) (another file), or the same row twice.
SplitInputs ==
    {[i \in 1..n |-> i] : n \in 0..MaxSplitRows}
      \cup {[i \in 1..n |-> 10 + i] : n \in 1..MaxSplitRows}
      \cup {<<1, 1>>}

\* eval_pct as a fraction; the option is any float.
EvalFractions ==
    { [num |-> -1, den |-> 2], [num |-> 0, den |-> 1], [num |-> 1, den |-> 20],
      [num |-> 1, den |-> 2], [num |-> 1, den |-> 1], [num |-> 3, den |-> 1] }

Min2(a, b) == IF a <= b THEN a ELSE b

\* int(round(num / den)): round rounds to the nearest integer, a half to the
\* even one.
RoundHalfEven(num, den) ==
    LET fl == num \div den
        rem == num - fl * den
    IN  IF 2 * rem < den THEN fl
        ELSE IF 2 * rem > den THEN fl + 1
        ELSE IF fl % 2 = 0 THEN fl ELSE fl + 1

\* n_eval without the cap that leaves a row to train.
NEvalUncapped(n, pct) == Max2(1, RoundHalfEven(n * pct.num, pct.den))

\* n_eval of split_dataset for n rows.
NEval(n, pct) ==
    LET n_eval == Max2(1, RoundHalfEven(n * pct.num, pct.den))
    IN  IF n > 1 THEN Min2(n_eval, n - 1) ELSE 0

\* rows[:-k] and rows[-k:] for k > 0, as slices clamp their bounds.
AllButLast(rows, k) == SubSeq(rows, 1, Max2(0, Len(rows) - k))

LastRows(rows, k) == SubSeq(rows, Max2(1, Len(rows) - k + 1), Len(rows))

TrainSet(rows, n_eval) == IF n_eval > 0 THEN AllButLast(rows, n_eval) ELSE rows

EvalSet(rows, n_eval) == IF n_eval > 0 THEN LastRows(rows, n_eval) ELSE <<>>

NoOutput == [exists |-> FALSE, rows |-> <<>>]

\* _save_jsonl opens the file in mode "w" and writes the rows.
SaveJsonl(file, rows) == [exists |-> TRUE, rows |-> rows]

\* No run yet; repeat tells that a run had the input, the seed and the
\* fraction of the run before it.
NoSplit ==
    [valid |-> FALSE, input |-> <<>>, seed |-> 0, eval_pct |-> [num |-> 0, den |-> 1],
     repeat |-> FALSE]

InitSplitVars ==
    /\ splitIn \in SplitInputs
    /\ trainFile = NoOutput
    /\ evalFile = NoOutput
    /\ lastSplit = NoSplit
    /\ splits = 0

\* The input file is replaced by another one.
ChangeInput ==
    /\ splits < MaxSplits
    /\ splitIn' \in SplitInputs \ {splitIn}
    /\ UNCHANGED <<trainFile, evalFile, lastSplit, splits>>
    /\ UNCHANGED <<varsUnify, varsSync, varsDocs, varsSql, varsFetch, varsArchive>>

\* split_dataset: an input without rows returns before the files are opened.
SplitRun ==
    /\ splits < MaxSplits
    /\ \E seed \in 0..MaxSeed, eval_pct \in EvalFractions :
          LET rows == Shuffle(splitIn, seed)
              n_eval == NEval(Len(rows), eval_pct)
          IN  /\ IF splitIn = <<>>
                 THEN UNCHANGED <<trainFile, evalFile>>
                 ELSE /\ trainFile' = SaveJsonl(trainFile, TrainSet(rows, n_eval))
                      /\ evalFile' = SaveJsonl(evalFile, EvalSet(rows, n_eval))
              /\ lastSplit' = [valid |-> TRUE, input |-> splitIn, seed |-> seed,
                               eval_pct |-> eval_pct,
                               repeat |-> /\ lastSplit.valid
                                          /\ lastSplit.input = splitIn
                                          /\ lastSplit.seed = seed
                                          /\ lastSplit.eval_pct = eval_pct]
    /\ splits' = splits + 1
    /\ UNCHANGED splitIn
    /\ UNCHANGED <<varsUnify, varsSync, varsDocs, varsSql, varsFetch, varsArchive>>

NextSplit == ChangeInput \/ SplitRun

(***************************************************************************)
(* process_database behind sql_import_cmd                                  *)
(***************************************************************************)
RequiredCols == {"id", "parent_id", "root_id", "author_nick", "created_at"}

ContentCols == {"content_title", "content_body"}

Sidecar(exists, table_name, cols) ==
    [exists |-> exists, table_name |-> table_name, column_names |-> cols]

\* The sidecars: missing, without table name, without column map, complete,
\* complete but for one required column, complete but for the title column.
SqlConfigs ==
    { Sidecar(FALSE, FALSE, {}),
      Sidecar(TRUE, FALSE, RequiredCols \cup ContentCols),
      Sidecar(TRUE, TRUE, {}),
      Sidecar(TRUE, TRUE, RequiredCols \cup ContentCols),
      Sidecar(TRUE, TRUE, RequiredCols \cup {"content_body"}) }
      \cup {Sidecar(TRUE, TRUE, (RequiredCols \ {c}) \cup ContentCols) : c \in RequiredCols}

SqlArgs ==
    { [user_nick |-> "me", max_context |-> 0, strip_self_context |-> FALSE],
      [user_nick |-> "me", max_context |-> 1, strip_self_context |-> TRUE],
      [user_nick |-> "", max_context |-> 1, strip_self_context |-> FALSE] }

T_t == <<"t">>
T_b == <<"b">>

\* A NULL of the database where a text is expected.
Null == <<"<null>">>

\* A row of the table; parent_id 0 stands for NULL as well.
Post(id, parent_id, author_nick, title, body) ==
    [id |-> id, parent_id |-> parent_id, root_id |-> 1, author_nick |-> author_nick,
     title |-> title, body |-> body]

\* The tables, in the order of the query: empty; a root by someone else with
\* a reply of the user; the same with a second reply of the user to the
\* first; a root of the user alone; a reply of the user with a NULL title.
SqlTables ==
    { <<>>,
      <<Post(1, 0, "al", T_t, T_b), Post(2, 1, "me", T_empty, T_b)>>,
      <<Post(1, 0, "al", T_t, T_b), Post(2, 1, "me", T_empty, T_b),
        Post(3, 2, "me", T_empty, T_hi)>>,
      <<Post(1, 0, "me", T_t, T_b)>>,
      <<Post(1, 0, "al", T_t, T_b), Post(2, 1, "me", Null, T_b)>>,
      <<Post(1, 0, "al", T_empty, T_empty), Post(2, 1, "me", T_empty, T_b)>>,
      <<Post(1, 0, "al", T_t, T_b), Post(2, 1, "me", T_empty, T_blank)>>,
      <<Post(1, 0, "al", T_t, T_b), Post(2, 1, "al", T_empty, T_hi),
        Post(2, 1, "me", T_empty, T_b)>> }

MaxPosts == 3

\* The tables of MaxPosts rows of the user, one for every choice of the
\* parents among no parent (0), the rows, and a row that is not in the table.
GraphTables ==
    {[i \in 1..MaxPosts |-> Post(i, f[i], "me", T_empty, T_b)] :
        f \in [1..MaxPosts -> 0..(MaxPosts + 1)]}

CompleteSidecar == Sidecar(TRUE, TRUE, RequiredCols \cup ContentCols)

\* The output file before the command: missing, or left by an earlier run.
OldExample == [thread_id |-> 0, post_id |-> 0, messages |-> <<>>]

SqlOutputs == {NoOutput, [exists |-> TRUE, rows |-> <<OldExample>>]}

\* all([col_map, table_name, user_nick]) of process_database.
ConfigComplete(cfg, args) ==
    cfg.column_names # {} /\ cfg.table_name /\ args.user_nick # ""

\* by_id: the last row of each id.
ById(rows) ==
    [i \in {rows[k].id : k \in 1..Len(rows)} |->
        rows[CHOOSE k \in 1..Len(rows) :
                /\ rows[k].id = i
                /\ \A j \in 1..Len(rows) : rows[j].id = i => j <= k]]

\* The loop of _ancestors from row cur, the chain built leaf first.
RECURSIVE AncestorsFrom(_, _, _, _)
AncestorsFrom(by_id, cur, chain, seen) ==
    IF cur.id \in seen THEN chain
    ELSE LET pid == cur.parent_id
         IN  IF pid = 0 \/ pid = cur.id \/ pid \notin DOMAIN by_id
             THEN Append(chain, cur)
             ELSE AncestorsFrom(by_id, by_id[pid], Append(chain, cur), seen \cup {cur.id})

\* _ancestors without chain.reverse().
AncestorsLeafFirst(by_id, row) == AncestorsFrom(by_id, row, <<>>, {})

\* _ancestors: the chain from the root to the row.
Ancestors(by_id, row) == Reverse(AncestorsFrom(by_id, row, <<>>, {}))

\* The title or the body of a row: empty when the column is not mapped.
Field(row, cols, col, value) == IF col \in cols THEN value ELSE T_empty

\* title + "\n\n" + body raises on a NULL.
ContentRaises(row, cols) ==
    \/ Field(row, cols, "content_title", row.title) = Null
    \/ Field(row, cols, "content_body", row.body) = Null

Content(row, cols) ==
    Strip(Field(row, cols, "content_title", row.title) \o <<"\n", "\n">>
            \o Field(row, cols, "content_body", row.body))

\* The context rows of a chain: the strip_self_context filter, then the
\* last max_context of them when max_context > 0.
Context(chain, args) ==
    LET ctx == SubSeq(chain, 1, Len(chain) - 1)
        others == IF args.strip_self_context
                  THEN SelectSeq(ctx, LAMBDA x : x.author_nick # args.user_nick)
                  ELSE ctx
    IN  IF args.max_context > 0 THEN LastRows(others, args.max_context) ELSE others

\* The context messages without the test of the content.
RECURSIVE ContextMessagesKeepEmpty(_, _)
ContextMessagesKeepEmpty(ctx, cols) ==
    IF ctx = <<>> THEN <<>>
    ELSE <<Msg("user", Content(Head(ctx), cols))>> \o ContextMessagesKeepEmpty(Tail(ctx), cols)

RECURSIVE ContextMessages(_, _)
ContextMessages(ctx, cols) ==
    IF ctx = <<>> THEN <<>>
    ELSE LET content == Content(Head(ctx), cols)
         IN  (IF content # <<>> THEN <<Msg("user", content)>> ELSE <<>>)
               \o ContextMessages(Tail(ctx), cols)

\* What the loop body of process_database does for row r: "raise" (a
\* KeyError of the column map or a TypeError of a NULL), "skip", or "write"
\* with the example.
RowOutcome(r, rows, cfg, args) ==
    LET cols == cfg.column_names
        chain == Ancestors(ById(rows), r)
        ctx == Context(chain, args)
        msgs == ContextMessages(ctx, cols) \o <<Msg("model", Content(r, cols))>>
    IN  IF "author_nick" \notin cols THEN [do |-> "raise"]
        ELSE IF r.author_nick # args.user_nick THEN [do |-> "skip"]
        ELSE IF "parent_id" \notin cols THEN [do |-> "raise"]
        ELSE IF \E i \in 1..Len(ctx) : ContentRaises(ctx[i], cols) THEN [do |-> "raise"]
        ELSE IF ContentRaises(r, cols) THEN [do |-> "raise"]
        ELSE IF Content(r, cols) = <<>> THEN [do |-> "skip"]
        ELSE IF Len(msgs) < 2 THEN [do |-> "skip"]
        ELSE IF "root_id" \notin cols THEN [do |-> "raise"]
        ELSE [do |-> "write",
              ex |-> [thread_id |-> r.root_id, post_id |-> r.id, messages |-> msgs]]

InitSqlVars ==
    /\ \/ sqlCfg \in SqlConfigs /\ sqlDb \in SqlTables
       \/ sqlCfg = CompleteSidecar /\ sqlDb \in GraphTables
    /\ sqlArgs \in SqlArgs
    /\ sqlOut \in SqlOutputs
    /\ pcQ = "start"
    /\ sqlTodo = <<>>
    /\ sqlExit = -1

\* The sidecar is looked for and the mapping tested: a missing sidecar and
\* an incomplete mapping are printed and the function returns, after which
\* sql_import_cmd returns.
SqlCheck ==
    /\ pcQ = "start"
    /\ IF ~sqlCfg.exists \/ ~ConfigComplete(sqlCfg, sqlArgs)
       THEN pcQ' = "reported" /\ sqlExit' = 0
       ELSE pcQ' = "query" /\ UNCHANGED sqlExit
    /\ UNCHANGED <<sqlCfg, sqlArgs, sqlDb, sqlOut, sqlTodo>>
    /\ UNCHANGED <<varsUnify, varsSync, varsDocs, varsSplit, varsFetch, varsArchive>>

\* The query is built from col_map['created_at'] and col_map['id'] and run;
\* a KeyError leaves the command through the exception.
SqlQuery ==
    /\ pcQ = "query"
    /\ IF {"created_at", "id"} \subseteq sqlCfg.column_names
       THEN pcQ' = "open" /\ sqlTodo' = sqlDb /\ UNCHANGED sqlExit
       ELSE pcQ' = "raised" /\ sqlExit' = 1 /\ UNCHANGED sqlTodo
    /\ UNCHANGED <<sqlCfg, sqlArgs, sqlDb, sqlOut>>
    /\ UNCHANGED <<varsUnify, varsSync, varsDocs, varsSplit, varsFetch, varsArchive>>

\* The output file is opened in mode "w".
SqlOpen ==
    /\ pcQ = "open"
    /\ sqlOut' = [exists |-> TRUE, rows |-> <<>>]
    /\ pcQ' = "rows"
    /\ UNCHANGED <<sqlCfg, sqlArgs, sqlDb, sqlTodo, sqlExit>>
    /\ UNCHANGED <<varsUnify, varsSync, varsDocs, varsSplit, varsFetch, varsArchive>>

\* One iteration of the loop over the rows.
SqlRow ==
    /\ pcQ = "rows"
    /\ sqlTodo # <<>>
    /\ LET o == RowOutcome(Head(sqlTodo), sqlDb, sqlCfg, sqlArgs)
       IN  CASE o.do = "raise" ->
                  pcQ' = "raised" /\ sqlExit' = 1 /\ UNCHANGED <<sqlOut, sqlTodo>>
             [] o.do = "skip" ->
                  sqlTodo' = Tail(sqlTodo) /\ UNCHANGED <<sqlOut, pcQ, sqlExit>>
             [] o.do = "write" ->
                  /\ sqlOut' = [sqlOut EXCEPT !.rows = Append(@, o.ex)]
                  /\ sqlTodo' = Tail(sqlTodo)
                  /\ UNCHANGED <<pcQ, sqlExit>>
    /\ UNCHANGED <<sqlCfg, sqlArgs, sqlDb>>
    /\ UNCHANGED <<varsUnify, varsSync, varsDocs, varsSplit, varsFetch, varsArchive>>

\* The loop is over: the file is closed and the command returns.
SqlDone ==
    /\ pcQ = "rows"
    /\ sqlTodo = <<>>
    /\ pcQ' = "done"
    /\ sqlExit' = 0
    /\ UNCHANGED <<sqlCfg, sqlArgs, sqlDb, sqlOut, sqlTodo>>
    /\ UNCHANGED <<varsUnify, varsSync, varsDocs, varsSplit, varsFetch, varsArchive>>

NextSql == SqlCheck \/ SqlQuery \/ SqlOpen \/ SqlRow \/ SqlDone

(***************************************************************************)
(* _fetch_tweets_since                                                     *)
(***************************************************************************)
MaxPages == 3
MaxRateLimits == 3

\* The remote answers page p with two items and, unless p is the last page,
\* with the token of page p + 1; a remote without items answers one page
\* without data.
PagesOf(n) == [p \in 1..n |-> <<2 * p - 1, 2 * p>>]

FetchRemotes == {<<<<>>>>} \cup {PagesOf(n) : n \in 1..MaxPages}

\* The x-rate-limit-reset header (0 when absent) and the clock, in seconds.
ResetHeaders == {0, 8, 10, 13, 20}

Clock == {10}

WaitNoMinimum(reset, now) == reset - now

\* wait = max(5, reset - int(time.time()))
Wait(reset, now) == Max2(5, reset - now)

\* The page a request names: the first page when no token is sent.
PageOf(token) == IF token = 0 THEN 1 ELSE token

\* meta.next_token of the answer for page p (0: none).
NextTokenAfter(pages, p) == IF p < Len(pages) THEN p + 1 ELSE 0

\* The token a request carries: params["pagination_token"] is set only when
\* next_token is truthy, and stays in params otherwise.
SentToken == IF next_token # 0 THEN next_token ELSE pagination_token

InitFetchVars ==
    /\ fRemote \in FetchRemotes
    /\ next_token = 0
    /\ pagination_token = 0
    /\ yielded = <<>>
    /\ requests = <<>>
    /\ waits = <<>>
    /\ pcF = "loop"

\* A request answered 200: its items are yielded, and the loop goes on with
\* the next token or breaks when there is none.
FetchPage ==
    /\ pcF = "loop"
    /\ LET p == PageOf(SentToken)
           nt == NextTokenAfter(fRemote, p)
       IN  /\ requests' = Append(requests, [token |-> SentToken, status |-> 200])
           /\ pagination_token' = SentToken
           /\ yielded' = yielded \o fRemote[p]
           /\ next_token' = nt
           /\ pcF' = (IF nt = 0 THEN "done" ELSE "loop")
    /\ UNCHANGED <<fRemote, waits>>
    /\ UNCHANGED <<varsUnify, varsSync, varsDocs, varsSplit, varsSql, varsArchive>>

\* A request answered 429: the wait is computed and the sleep begins. The
\* code counts no retries; requests and waits record the first MaxRateLimits
\* of them and the later ones happen unrecorded.
FetchRateLimited ==
    /\ pcF = "loop"
    /\ pagination_token' = SentToken
    /\ \E reset \in ResetHeaders, now \in Clock :
          IF Len(waits) < MaxRateLimits
          THEN /\ requests' = Append(requests, [token |-> SentToken, status |-> 429])
               /\ waits' = Append(waits, Wait(reset, now))
          ELSE UNCHANGED <<requests, waits>>
    /\ pcF' = "sleep"
    /\ UNCHANGED <<fRemote, next_token, yielded>>
    /\ UNCHANGED <<varsUnify, varsSync, varsDocs, varsSplit, varsSql, varsArchive>>

\* A request that raises RequestException (no connection, a timeout, another
\* error status): the loop breaks.
FetchFails ==
    /\ pcF = "loop"
    /\ requests' = Append(requests, [token |-> SentToken, status |-> 0])
    /\ pagination_token' = SentToken
    /\ pcF' = "done"
    /\ UNCHANGED <<fRemote, next_token, yielded, waits>>
    /\ UNCHANGED <<varsUnify, varsSync, varsDocs, varsSplit, varsSql, varsArchive>>

\* time.sleep returns and `continue` starts the next iteration.
FetchWake ==
    /\ pcF = "sleep"
    /\ pcF' = "loop"
    /\ UNCHANGED <<fRemote, next_token, pagination_token, yielded, requests, waits>>
    /\ UNCHANGED <<varsUnify, varsSync, varsDocs, varsSplit, varsSql, varsArchive>>

NextFetch == FetchPage \/ FetchRateLimited \/ FetchFails \/ FetchWake

(***************************************************************************)
(* process_archive, load_archive, unify_tweet, make_dialog_example         *)
(***************************************************************************)
MaxArchive == 2

\* The characters of the model's texts that \w does not match.
NonWordChars == {" ", "\n", "\t", "@", "#", ":", "/", ".", "&", ";", "<", ">"}

IsWordChar(c) == c \notin NonWordChars

\* First position at or after i that holds no word character (Len + 1 at
\* the end).
RECURSIVE WordRunEnd(_, _)
WordRunEnd(t, i) ==
    IF i <= Len(t) /\ IsWordChar(t[i]) THEN WordRunEnd(t, i + 1) ELSE i

\* First position at or after i that holds whitespace (Len + 1 at the end).
RECURSIVE NonSpaceRunEnd(_, _)
NonSpaceRunEnd(t, i) ==
    IF i <= Len(t) /\ ~IsWS(t[i]) THEN NonSpaceRunEnd(t, i + 1) ELSE i

HasAt(t, i, p) == i + Len(p) - 1 <= Len(t) /\ SubSeq(t, i, i + Len(p) - 1) = p

T_http == <<"h", "t", "t", "p", ":", "/", "/">>
T_https == <<"h", "t", "t", "p", "s", ":", "/", "/">>

\* URL_RE.sub("", t) with URL_RE = https?://\S+
RECURSIVE RemoveUrlsFrom(_, _)
RemoveUrlsFrom(t, i) ==
    IF i > Len(t) THEN <<>>
    ELSE LET body == IF HasAt(t, i, T_https) THEN i + Len(T_https)
                     ELSE IF HasAt(t, i, T_http) THEN i + Len(T_http)
                     ELSE 0
         IN  IF body > 0 /\ NonSpaceRunEnd(t, body) > body
             THEN RemoveUrlsFrom(t, NonSpaceRunEnd(t, body))
             ELSE <<t[i]>> \o RemoveUrlsFrom(t, i + 1)

RemoveUrls(t) == RemoveUrlsFrom(t, 1)

\* re.sub(r"[#@]\w+", "", t): a "#" or "@" goes with the word after it, and
\* stays when no word character follows.
RECURSIVE RemoveTagsFrom(_, _)
RemoveTagsFrom(t, i) ==
    IF i > Len(t) THEN <<>>
    ELSE IF t[i] \in {"#", "@"} /\ WordRunEnd(t, i + 1) > i + 1
         THEN RemoveTagsFrom(t, WordRunEnd(t, i + 1))
         ELSE <<t[i]>> \o RemoveTagsFrom(t, i + 1)

RemoveTags(t) == RemoveTagsFrom(t, 1)

\* clean_text, for texts without an edit note, direction marks or carriage
\* returns (the texts of the model have none).
CleanText(t) ==
    IF t = <<>> THEN <<>>
    ELSE Strip(CollapseWS(RemoveTags(RemoveUrls(Unescape(t)))))

NormForDedup(t) == Lower(CleanText(t))

T_RTAt == <<"R", "T", " ", "@">>
T_RTuhi == <<"R", "T", " ", "@", "u", " ", "h", "i">>
T_RTbare == <<"R", "T", " ", "@", " ", "h", "i">>
T_uyo == <<"@", "u", " ", "y", "o">>
T_url == <<"h", "t", "t", "p", ":", "/", "/", "x">>
T_prompt == <<"Write a tweet in my style.">>

\* An item of the tweets file. id 0 is no id, reply_to 0 is no reply, ts 0 is
\* no parseable created_at. kind tells an item that is not a tweet object:
\* "not_object" is a JSON value without get, "text_not_string" an object whose
\* full_text is a number, "truncated" an item that is not valid JSON.
ArchTweet(id, text, reply_to, quote, ts) ==
    [kind |-> "tweet", id |-> id, text |-> text, reply_to |-> reply_to,
     quote |-> quote, ts |-> ts]

BadItem(kind) ==
    [kind |-> kind, id |-> 0, text |-> <<>>, reply_to |-> 0, quote |-> FALSE, ts |-> 0]

ArchiveItems ==
    { ArchTweet(1, T_hi, 0, FALSE, 2),
      ArchTweet(2, T_Hi, 0, FALSE, 1),
      ArchTweet(2, T_uyo, 1, FALSE, 3),
      ArchTweet(2, T_hello, 9, FALSE, 1),
      ArchTweet(1, T_Hello, 1, FALSE, 1),
      ArchTweet(3, T_RTuhi, 0, FALSE, 1),
      ArchTweet(3, T_RTbare, 0, FALSE, 1),
      ArchTweet(3, T_url, 0, TRUE, 0),
      BadItem("not_object"), BadItem("text_not_string"), BadItem("truncated") }

Archives == SeqsUpTo(ArchiveItems, MaxArchive)

ArchOption(include_replies, no_quotes, dialog, num, den) ==
    [include_replies |-> include_replies, no_quotes |-> no_quotes, dialog |-> dialog,
     eval_pct |-> [num |-> num, den |-> den]]

ArchOptions ==
    { ArchOption(TRUE, FALSE, TRUE, 0, 1),
      ArchOption(TRUE, FALSE, FALSE, 1, 2),
      ArchOption(FALSE, TRUE, TRUE, 1, 2),
      ArchOption(TRUE, TRUE, TRUE, 1, 1) }

RoleAssistant == "assistant"

\* load_archive and _load_js raise: the path is a file of another type or a
\* folder without tweets.js, json.loads fails on the payload, or an item has
\* no get.
LoadArchiveRaises(src, items) ==
    \/ src # "archive"
    \/ \E i \in 1..Len(items) : items[i].kind \in {"truncated", "not_object"}

\* unify_tweet raises: clean_text on a text that is not a string.
UnifyTweetRaises(item) == item.kind = "text_not_string"

\* unify_tweet
UnifyTweet(item) ==
    LET text == CleanText(item.text)
    IN  [id_str |-> item.id, text |-> text, ts |-> item.ts,
         in_reply_to_id |-> item.reply_to, is_quote |-> item.quote,
         is_retweet |-> StartsWith(text, T_RTAt)]

\* by_id = {t["id_str"]: t for t in unified if t["id_str"]}: the last tweet of
\* each id.
ByIdStr(tweets) ==
    [id \in {tweets[i].id_str : i \in 1..Len(tweets)} \ {0} |->
        tweets[CHOOSE i \in 1..Len(tweets) :
                    /\ tweets[i].id_str = id
                    /\ \A j \in (i + 1)..Len(tweets) : tweets[j].id_str # id]]

\* kept.sort(key=ts or 1970): a stable sort.
RECURSIVE InsertByTs(_, _)
InsertByTs(sorted, tw) ==
    IF sorted = <<>> THEN <<tw>>
    ELSE IF sorted[Len(sorted)].ts <= tw.ts THEN Append(sorted, tw)
    ELSE Append(InsertByTs(SubSeq(sorted, 1, Len(sorted) - 1), tw), sorted[Len(sorted)])

RECURSIVE SortByTs(_)
SortByTs(q) ==
    IF q = <<>> THEN <<>>
    ELSE InsertByTs(SortByTs(SubSeq(q, 1, Len(q) - 1)), q[Len(q)])

\* make_style_example
MakeStyleExample(tweet, prompt, role_assistant) ==
    [tweet_id |-> tweet.id_str,
     messages |-> <<Msg("user", prompt), Msg(role_assistant, tweet.text)>>]

\* The chain of make_dialog_example before it is reversed: the tweet, then
\* up to max_context parents found in by_id.
RECURSIVE DialogChainFrom(_, _, _, _)
DialogChainFrom(chain, current, by_id, fuel) ==
    IF fuel = 0 \/ current.in_reply_to_id = 0 \/ current.in_reply_to_id \notin DOMAIN by_id
    THEN chain
    ELSE DialogChainFrom(Append(chain, by_id[current.in_reply_to_id]),
                         by_id[current.in_reply_to_id], by_id, fuel - 1)

DialogChain(tweet, by_id, max_context) ==
    Reverse(DialogChainFrom(<<tweet>>, tweet, by_id, max_context))

NoExample == [tweet_id |-> 0, messages |-> <<>>]

\* make_dialog_example; NoExample stands for None.
MakeDialogExample(tweet, by_id, max_context, role_assistant) ==
    LET chain == DialogChain(tweet, by_id, max_context)
        n == Len(chain)
        messages == [i \in 1..n |->
                        Msg(IF (n - i) % 2 = 1 THEN "user" ELSE role_assistant,
                            chain[i].text)]
    IN  IF messages = <<>> \/ messages[n].role # role_assistant
        THEN NoExample
        ELSE [tweet_id |-> tweet.id_str, messages |-> messages]

\* One iteration of the loop that builds the examples.
BuildExample(tw, by_id, o) ==
    LET example == IF o.dialog /\ tw.in_reply_to_id # 0
                   THEN MakeDialogExample(tw, by_id, 1, RoleAssistant)
                   ELSE NoExample
    IN  IF example = NoExample
        THEN MakeStyleExample(tw, T_prompt, RoleAssistant)
        ELSE example

\* n_eval = int(round(len(rows) * eval_pct))
ArchNEval(n, pct) == RoundHalfEven(n * pct.num, pct.den)

InitArchiveVars ==
    /\ \/ aSrc = "archive" /\ aItems \in Archives
       \/ aSrc \in {"missing", "unsupported"} /\ aItems = <<>>
    /\ aOpts \in ArchOptions
    /\ pcA = "load"
    /\ aUnified = <<>>
    /\ aIdx = 1
    /\ aKept = <<>>
    /\ aSeen = {}
    /\ aRows = <<>>
    /\ aOut = NoOutput
    /\ aEval = NoOutput

\* load_archive and the list of unified tweets.
ArchLoad ==
    /\ pcA = "load"
    /\ IF \/ LoadArchiveRaises(aSrc, aItems)
          \/ \E i \in 1..Len(aItems) : UnifyTweetRaises(aItems[i])
       THEN pcA' = "aborted" /\ UNCHANGED aUnified
       ELSE /\ aUnified' = [i \in 1..Len(aItems) |-> UnifyTweet(aItems[i])]
            /\ pcA' = "filter"
    /\ UNCHANGED <<aSrc, aItems, aOpts, aIdx, aKept, aSeen, aRows, aOut, aEval>>
    /\ UNCHANGED <<varsUnify, varsSync, varsDocs, varsSplit, varsSql, varsFetch>>

\* One iteration of the loop that filters and deduplicates.
ArchFilter ==
    /\ pcA = "filter"
    /\ aIdx <= Len(aUnified)
    /\ LET tw == aUnified[aIdx]
           h == NormForDedup(tw.text)
       IN  IF \/ tw.is_retweet
              \/ aOpts.no_quotes /\ tw.is_quote
              \/ ~aOpts.include_replies /\ tw.in_reply_to_id # 0
              \/ h \in aSeen
           THEN UNCHANGED <<aKept, aSeen>>
           ELSE aSeen' = aSeen \cup {h} /\ aKept' = Append(aKept, tw)
    /\ aIdx' = aIdx + 1
    /\ UNCHANGED <<aSrc, aItems, aOpts, pcA, aUnified, aRows, aOut, aEval>>
    /\ UNCHANGED <<varsUnify, varsSync, varsDocs, varsSplit, varsSql, varsFetch>>

\* The sort of kept between the two loops.
ArchSort ==
    /\ pcA = "filter"
    /\ aIdx > Len(aUnified)
    /\ aKept' = SortByTs(aKept)
    /\ aIdx' = 1
    /\ pcA' = "build"
    /\ UNCHANGED <<aSrc, aItems, aOpts, aUnified, aSeen, aRows, aOut, aEval>>
    /\ UNCHANGED <<varsUnify, varsSync, varsDocs, varsSplit, varsSql, varsFetch>>

\* One iteration of the loop that builds the examples.
ArchBuild ==
    /\ pcA = "build"
    /\ aIdx <= Len(aKept)
    /\ aRows' = Append(aRows, BuildExample(aKept[aIdx], ByIdStr(aUnified), aOpts))
    /\ aIdx' = aIdx + 1
    /\ UNCHANGED <<aSrc, aItems, aOpts, pcA, aUnified, aKept, aSeen, aOut, aEval>>
    /\ UNCHANGED <<varsUnify, varsSync, varsDocs, varsSplit, varsSql, varsFetch>>

\* The split and the two files; nothing is written when there is no row.
ArchWrite ==
    /\ pcA = "build"
    /\ aIdx > Len(aKept)
    /\ LET n_eval == ArchNEval(Len(aRows), aOpts.eval_pct)
           eval_rows == EvalSet(aRows, n_eval)
       IN  IF aRows = <<>>
           THEN UNCHANGED <<aOut, aEval>>
           ELSE /\ aOut' = SaveJsonl(aOut, TrainSet(aRows, n_eval))
                /\ aEval' = IF eval_rows # <<>> THEN SaveJsonl(aEval, eval_rows) ELSE aEval
    /\ pcA' = "done"
    /\ UNCHANGED <<aSrc, aItems, aOpts, aUnified, aIdx, aKept, aSeen, aRows>>
    /\ UNCHANGED <<varsUnify, varsSync, varsDocs, varsSplit, varsSql, varsFetch>>

NextArchive == ArchLoad \/ ArchFilter \/ ArchSort \/ ArchBuild \/ ArchWrite

(***************************************************************************)
(* Specifications                                                          *)
(***************************************************************************)
\* The variables of a command that does not run keep these values.
IdleUnify ==
    /\ input_lines = <<>>
    /\ pcU = "read"
    /\ all_rows = <<>>
    /\ opts = [drop_generic_prompts |-> FALSE, shuffle |-> FALSE, seed |-> 0]
    /\ idx = 1
    /\ kept = <<>>
    /\ seen_hashes = {}
    /\ unified = [exists |-> FALSE, rows |-> <<>>]

IdleSync ==
    /\ \E o \in SyncOptions : o.bearer_token /\ o.min_len = 0 /\ sopts = o
    /\ InitSyncVars

IdleDocs ==
    /\ \E o \in DocsOptions : o.max_chars = 10 /\ o.min_chars = 1 /\ dopts = o
    /\ InitDocsVars

IdleSplit ==
    /\ splitIn = <<>>
    /\ InitSplitVars

IdleSql ==
    /\ sqlCfg = Sidecar(FALSE, FALSE, {})
    /\ \E a \in SqlArgs : a.user_nick = "" /\ sqlArgs = a
    /\ sqlDb = <<>>
    /\ sqlOut = NoOutput
    /\ InitSqlVars

IdleFetch ==
    /\ fRemote = <<<<>>>>
    /\ InitFetchVars

IdleArchive ==
    /\ aSrc = "archive"
    /\ aItems = <<>>
    /\ aOpts = ArchOption(TRUE, FALSE, TRUE, 0, 1)
    /\ InitArchiveVars

InitUnify == InitUnifyVars /\ IdleSync /\ IdleDocs /\ IdleSplit /\ IdleSql /\ IdleFetch /\ IdleArchive

SpecUnify == InitUnify /\ [][NextUnify]_vars

InitSync == InitSyncVars /\ IdleUnify /\ IdleDocs /\ IdleSplit /\ IdleSql /\ IdleFetch /\ IdleArchive

\* Runs of sync_tweets, each complete or interrupted around the append.
SpecSync == InitSync /\ [][NextSync]_vars

\* Runs of sync_tweets, killed at any point, the write of the state file in
\* its two steps.
SpecSyncKill == InitSync /\ [][NextSyncKill]_vars

InitDocs == InitDocsVars /\ IdleUnify /\ IdleSync /\ IdleSplit /\ IdleSql /\ IdleFetch /\ IdleArchive

\* Runs of process_documents between changes of the file tree.
SpecDocs == InitDocs /\ [][NextDocs]_vars

\* Runs of process_documents over the tree or over one folder of it.
SpecDocsRoots == InitDocs /\ [][NextDocsRoots]_vars

\* Runs of process_documents that may be killed, with a state file that may
\* be lost.
SpecDocsKill == InitDocs /\ [][NextDocsKill]_vars

InitDocsState ==
    /\ \E sf \in StateFilesD : DocsInitAt(sf)
    /\ IdleUnify /\ IdleSync /\ IdleSplit /\ IdleSql /\ IdleFetch /\ IdleArchive

\* Runs of process_documents that find any state file.
SpecDocsState == InitDocsState /\ [][NextDocs]_vars

InitSplit == InitSplitVars /\ IdleUnify /\ IdleSync /\ IdleDocs /\ IdleSql /\ IdleFetch /\ IdleArchive

\* Runs of split_dataset between changes of the input file.
SpecSplit == InitSplit /\ [][NextSplit]_vars

InitFetch ==
    /\ InitFetchVars
    /\ IdleUnify /\ IdleSync /\ IdleDocs /\ IdleSplit /\ IdleSql /\ IdleArchive

\* One run of the generator _fetch_tweets_since against a remote that may
\* answer any request with a page, a rate limit or a failure.
SpecFetch == InitFetch /\ [][NextFetch]_vars

\* The generator keeps running: every request returns (timeout=30) and every
\* sleep ends. Nothing is assumed of the answers of the remote.
SpecFetchLive == SpecFetch /\ WF_vars(NextFetch)

InitArchive ==
    /\ InitArchiveVars
    /\ IdleUnify /\ IdleSync /\ IdleDocs /\ IdleSplit /\ IdleSql /\ IdleFetch

\* One run of process_archive.
SpecArchive == InitArchive /\ [][NextArchive]_vars

InitSql == InitSqlVars /\ IdleUnify /\ IdleSync /\ IdleDocs /\ IdleSplit /\ IdleFetch /\ IdleArchive

\* One run of sql_import_cmd.
SpecSql == InitSql /\ [][NextSql]_vars

(***************************************************************************)
(* Properties of unify_datasets                                            *)
(***************************************************************************)
\* The message list without an optional leading system message.
AfterSystem(messages) ==
    IF messages # <<>> /\ messages[1].role = "system" THEN Tail(messages) ELSE messages

Alternates(messages) ==
    LET body == AfterSystem(messages)
    IN  /\ Len(messages) >= 2
        /\ body # <<>>
        /\ \A i \in 1..Len(body) :
              /\ i % 2 = 1 => body[i].role = "user"
              /\ i % 2 = 0 => body[i].role = "assistant"
        /\ body[Len(body)].role = "assistant"
        /\ \A i \in 2..Len(messages) : messages[i].role # "system"

\* C1: every record kept or written by unify_datasets has at least 2 messages
\* which, after an optional leading system message, alternate user, assistant,
\* ... and end on assistant; system occurs at position 0 only.
C1_Alternation ==
    \A rec \in Range(kept) \cup Range(unified.rows) : Alternates(rec.messages)

\* A written record with a leading system message whose input had four
\* messages and was repaired to three.
C1_Witness ==
    /\ unified.exists
    /\ Len(all_rows) = 1
    /\ Len(all_rows[1].messages) = 4
    /\ Len(unified.rows) = 1
    /\ Len(unified.rows[1].messages) = 3
    /\ unified.rows[1].messages[1].role = "system"

\* The dedup key of a written record, as the claim states it: the final
\* assistant turn with tags stripped, entities unescaped, whitespace collapsed
\* and lower-cased.
DedupKey(messages) == Lower(NormText(messages[Len(messages)].content))

\* The input positions whose record passes normalisation and the filters.
Survivors == {i \in 1..Len(all_rows) : RowSurvives(all_rows[i], opts.drop_generic_prompts)}

NormMessages(i) == NormalizeRow(all_rows[i]).messages

\* The earliest survivor that shares the key of survivor i.
FirstWithKey(i) ==
    CHOOSE j \in Survivors :
        /\ DedupKey(NormMessages(j)) = DedupKey(NormMessages(i))
        /\ \A k \in Survivors :
              DedupKey(NormMessages(k)) = DedupKey(NormMessages(i)) => j <= k

\* C2: no two written records share a dedup key, and of the surviving input
\* records that share a key exactly the earliest one is written.
C2_DedupFirstWins ==
    unified.exists =>
        /\ \A i, j \in 1..Len(unified.rows) :
              i # j => DedupKey(unified.rows[i].messages) # DedupKey(unified.rows[j].messages)
        /\ {rec.messages : rec \in Range(unified.rows)}
              = {NormMessages(FirstWithKey(i)) : i \in Survivors}

\* Two surviving records whose final assistant turns differ (in case,
\* whitespace or entities) but share a key: one record is written.
C2_Witness ==
    /\ unified.exists
    /\ Len(all_rows) = 2
    /\ Survivors = {1, 2}
    /\ NormMessages(1)[Len(NormMessages(1))].content
          # NormMessages(2)[Len(NormMessages(2))].content
    /\ DedupKey(NormMessages(1)) = DedupKey(NormMessages(2))
    /\ Len(unified.rows) = 1
    /\ unified.rows[1].messages = NormMessages(1)

\* C11: no message of a written record has empty content.
C11_NoEmptyContent ==
    \A rec \in Range(unified.rows) :
        \A i \in 1..Len(rec.messages) : rec.messages[i].content # <<>>

\* The retweet marker of the claim.
RtAt == <<"r", "t", " ", "@">>

\* C12: no written record has a final assistant turn that starts with the
\* retweet marker "RT @", whatever the case of the letters.
C12_NoRetweetFinal ==
    \A rec \in Range(unified.rows) :
        ~StartsWith(Lower(rec.messages[Len(rec.messages)].content), RtAt)

\* The two rows of the example.
AssistantFirstRow == Row(<<Msg("model", T_Hello), Msg("user", T_hi)>>)

UserFirstRow == Row(<<Msg("user", T_Hi), Msg("model", T_hello)>>)

\* C13: unifying [model:'Hello', user:'hi'] and then [user:'Hi', model:'hello']
\* with drop-generic-prompts off writes exactly one record, the first row
\* repaired to [user:'...', assistant:'Hello'].
C13_ExampleKeepsFirst ==
    (/\ unified.exists
     /\ all_rows = <<AssistantFirstRow, UserFirstRow>>
     /\ ~opts.drop_generic_prompts)
        => unified.rows = <<[messages |-> <<Msg("user", T_dots), Msg("assistant", T_Hello)>>]>>

\* The two rows were unified with shuffling on, and one record was written.
C13_Witness ==
    /\ unified.exists
    /\ all_rows = <<AssistantFirstRow, UserFirstRow>>
    /\ ~opts.drop_generic_prompts
    /\ opts.shuffle
    /\ Len(unified.rows) = 1

\* The final user turn of a record that alternates and ends on the assistant.
FinalUserTurn(messages) == messages[Len(messages) - 1].content

\* A generic prompt as the claim states it.
GenericTurn(t) ==
    t = <<".", ".", ".">> \/ StartsWith(Lower(t), <<"w", "r", "i", "t", "e", " ", "a">>)

\* C14: with drop_generic_prompts on no written record has a generic final
\* user turn; with it off every normalised record with a generic final user
\* turn is written, or a record with the same dedup key is.
C14_GenericFilter ==
    unified.exists =>
        /\ opts.drop_generic_prompts =>
              \A rec \in Range(unified.rows) : ~GenericTurn(FinalUserTurn(rec.messages))
        /\ ~opts.drop_generic_prompts =>
              \A i \in 1..Len(all_rows) :
                  (NormalizeRow(all_rows[i]).valid /\ GenericTurn(FinalUserTurn(NormMessages(i))))
                      => \E rec \in Range(unified.rows) :
                            /\ DedupKey(rec.messages) = DedupKey(NormMessages(i))
                            /\ (\A j \in 1..(i - 1) :
                                   NormalizeRow(all_rows[j]).valid
                                      => DedupKey(NormMessages(j)) # DedupKey(NormMessages(i)))
                                  => rec.messages = NormMessages(i)

\* With the filter on, the assistant-first row (placeholder prompt) is left
\* out and the row after it, with the same final assistant text, is written.
C14_Witness ==
    /\ unified.exists
    /\ opts.drop_generic_prompts
    /\ all_rows = <<AssistantFirstRow, UserFirstRow>>
    /\ unified.rows = <<[messages |-> <<Msg("user", T_Hi), Msg("assistant", T_hello)>>]>>

\* C20: unify_datasets never aborts on malformed input.
C20_NeverAborts == pcU # "aborted"

(***************************************************************************)
(* Properties of sync_tweets                                               *)
(***************************************************************************)
\* C3: the output file never holds two rows with the same tweet identity,
\* also when runs are interrupted between the append and the save of the
\* checkpoint and later runs fetch the same tweets again.
C3_NoDuplicateRows ==
    \A i, j \in 1..Len(outFile) : i # j => outFile[i].tweet_id # outFile[j].tweet_id

\* The checkpoint was never persisted, the output holds rows, and the last
\* run fetched tweets that were all in the output already and built nothing.
C3_Witness ==
    /\ pcS = "idle"
    /\ ~stateFile.exists
    /\ outFile # <<>>
    /\ runs >= 2
    /\ all_new_tweets # <<>>
    /\ \A i \in 1..Len(all_new_tweets) :
          \E j \in 1..Len(outFile) : outFile[j].tweet_id = all_new_tweets[i].id
    /\ new_examples = <<>>

\* C4: once a run has fetched the whole timeline and ended, and nothing is
\* posted, no further step (no further run) changes the output file or the
\* checkpoint.
C4_Idempotent ==
    [][quiet => outFile' = outFile /\ stateFile'.start_time = stateFile.start_time]_vars

\* One tweet, appended and checkpointed by run 1; run 2 has come and gone.
C4_Witness ==
    /\ quiet
    /\ pcS = "idle"
    /\ Len(remote) = 1
    /\ Len(outFile) = 1
    /\ stateFile.exists
    /\ stateFile.last_run_at = 1
    /\ runs = 2

\* The tweets of the run that passed the filters and were turned into examples.
ProcessedItems ==
    {all_new_tweets[i] : i \in {k \in 1..Len(all_new_tweets) :
        \E e \in 1..Len(new_examples) : new_examples[e].tweet_id = all_new_tweets[k].id}}

MaxCreatedAt(S) == CHOOSE m \in {t.created_at : t \in S} : \A t \in S : t.created_at <= m

C6_StateFileWhole == pcS = "idle" => ~stateFile.torn

\* The filters of the claim, on a fetched tweet.
AlreadyEmitted(t) == \E j \in 1..Len(outFile) : outFile[j].tweet_id = t.id

FilteredOut(t) ==
    \/ sopts.no_quotes /\ t.quoted
    \/ t.source \in sopts.exclude_sources
    \/ t.len < sopts.min_len

\* C7: a run that fetches nothing, or only tweets that are already emitted
\* or filtered out, ends without changing the output file or the state file.
C7_NoOpRun ==
    [][(/\ runs' # runs
        /\ sopts.bearer_token
        /\ \A i \in 1..Len(all_new_tweets') :
              AlreadyEmitted(all_new_tweets'[i]) \/ FilteredOut(all_new_tweets'[i]))
       => (pcS' = "idle" /\ outFile' = outFile /\ stateFile' = stateFile)]_vars

\* After a checkpointed run, a later run fetched tweets, kept none and ended.
C7_Witness ==
    /\ pcS = "idle"
    /\ stateFile.exists
    /\ stateFile.last_run_at < runs
    /\ all_new_tweets # <<>>
    /\ new_examples = <<>>
    /\ \E i \in 1..Len(all_new_tweets) : ~AlreadyEmitted(all_new_tweets[i])

\* C8: every step leaves the old content of the output file as a prefix of
\* the new content, and the state file changes only when the examples of the
\* run are already the tail of the output file.
C8_AppendThenCheckpoint ==
    [][/\ IsPrefix(outFile, outFile')
       /\ stateFile' # stateFile =>
             /\ new_examples # <<>>
             /\ outFile' = outFile
             /\ Len(outFile) >= Len(new_examples)
             /\ SubSeq(outFile, Len(outFile) - Len(new_examples) + 1, Len(outFile))
                   = new_examples]_vars

\* A second run has appended below the row of the first and checkpointed.
C8_Witness ==
    /\ pcS = "idle"
    /\ Len(outFile) = 2
    /\ Len(new_examples) = 1
    /\ outFile[2] = new_examples[1]
    /\ outFile[1] # new_examples[1]
    /\ stateFile.last_run_at = runs
    /\ runs >= 2

(***************************************************************************)
(* Properties of process_documents                                         *)
(***************************************************************************)
\* C9: once a run has completed and while the file tree is not changed, no
\* step of a further run appends a line to the output file or changes a
\* per-file entry of the state file.
C9_RerunStable ==
    [][settled => outFileD' = outFileD /\ stateFileD'.files = stateFileD.files]_vars

\* A second run over an unchanged tree has visited every file; the first run
\* wrote lines and state entries.
C9_Witness ==
    /\ settled
    /\ runsD = 2
    /\ pcD = "files"
    /\ todo = <<>>
    /\ seen_files # {}
    /\ outFileD # <<>>
    /\ seen_files \subseteq DOMAIN stateFileD.files

\* C10 as stated: no two lines of the output file are the same paragraph (the
\* same dedup hash) of the same file.
C10_AtMostOnce ==
    \A i, j \in 1..Len(outFileD) :
        i # j => ~(/\ outFileD[i].source = outFileD[j].source
                   /\ Sha256Text(outFileD[i].text) = Sha256Text(outFileD[j].text))

\* C10, amended: a run never appends a paragraph of a file whose dedup hash
\* is in the chunk-hash set the state file holds for that file.
C10_StoredChunkNotAppended ==
    [][\A k \in (Len(outFileD) + 1)..Len(outFileD') :
          ~(/\ outFileD'[k].source \in DOMAIN stateFileD.files
            /\ Sha256Text(outFileD'[k].text) \in stateFileD.files[outFileD'[k].source].chunks)]_vars

\* A second run has reprocessed a changed file: a paragraph of its stored set
\* was skipped and a new paragraph appended below the line of the first run.
C10_Witness ==
    /\ runsD = 2
    /\ pcD = "files"
    /\ Len(outFileD) = 2
    /\ \E f \in seen_files \cap DOMAIN stateFileD.files :
          /\ disk[f].mtime # stateFileD.files[f].mtime
          /\ outFileD[1].source = f
          /\ outFileD[2].source = f
          /\ Sha256Text(outFileD[1].text) \in stateFileD.files[f].chunks
          /\ Sha256Text(outFileD[2].text) \notin stateFileD.files[f].chunks
          /\ dstate[f].chunks = {Sha256Text(outFileD[1].text), Sha256Text(outFileD[2].text)}

Occurrences(r, rows) == Cardinality({i \in 1..Len(rows) : rows[i] = r})

\* C16: after a split of n >= 2 rows eval holds between 1 and n-1 rows and
\* train at least 1; after a split of 1 row train holds it and eval is
\* empty; every input row is in exactly one of the two files.
C16_SplitSizes ==
    (lastSplit.valid /\ lastSplit.input # <<>>) =>
        LET n == Len(lastSplit.input)
            written == trainFile.rows \o evalFile.rows
        IN  /\ trainFile.exists /\ evalFile.exists
            /\ n >= 2 => /\ Len(evalFile.rows) >= 1
                         /\ Len(evalFile.rows) <= n - 1
                         /\ Len(trainFile.rows) >= 1
            /\ n = 1 => trainFile.rows = lastSplit.input /\ evalFile.rows = <<>>
            /\ Len(written) = n
            /\ \A r \in Range(lastSplit.input) :
                  Occurrences(r, written) = Occurrences(r, lastSplit.input)

\* Three rows split with a fraction above 1: eval is capped at two rows.
C16_Witness ==
    /\ lastSplit.valid
    /\ Len(lastSplit.input) = 3
    /\ lastSplit.eval_pct = [num |-> 3, den |-> 1]
    /\ Len(evalFile.rows) = 2
    /\ Len(trainFile.rows) = 1

\* C17: after any split run the train and eval files hold only rows of that
\* run's input.
C17_OnlyRowsOfThisRun ==
    lastSplit.valid =>
        Range(trainFile.rows) \cup Range(evalFile.rows) \subseteq Range(lastSplit.input)

(***************************************************************************)
(* Properties of sql_import_cmd                                            *)
(***************************************************************************)
\* A configuration error of the sidecar as the claim lists them.
MappingError ==
    \/ ~sqlCfg.exists
    \/ ~sqlCfg.table_name
    \/ ~(RequiredCols \subseteq sqlCfg.column_names)

\* The output file is as it was before the command.
OutputUntouched == sqlOut \in SqlOutputs

\* C18: with a missing sidecar or an incomplete mapping the command reports
\* the error and stops, and the output file is never created, truncated or
\* written.
C18_ConfigErrorStopsFirst ==
    MappingError =>
        /\ OutputUntouched
        /\ pcQ \in {"reported", "raised", "done"} => pcQ = "reported"

\* C19: a command that ends on a reported fatal error ends with a non-zero
\* exit status.
C19_FatalExitsNonZero == pcQ = "reported" => sqlExit # 0

\* The rows the command wrote (the file is opened for writing first).
Written == IF pcQ \in {"rows", "done", "raised"} /\ sqlOut.exists THEN Range(sqlOut.rows) \ {OldExample} ELSE {}

ContextOf(ex) == SubSeq(ex.messages, 1, Len(ex.messages) - 1)

\* C27: every written record has at most max_context context messages.
C27_ContextCapped ==
    \A ex \in Written : Len(ContextOf(ex)) <= sqlArgs.max_context

\* The rows of the user whose content is not empty and whose context, as
\* the options select it, has a row with content that is not empty.
Recordable ==
    {r \in Range(sqlDb) :
        /\ r.author_nick = sqlArgs.user_nick
        /\ Content(r, sqlCfg.column_names) # <<>>
        /\ \E c \in Range(Context(Ancestors(ById(sqlDb), r), sqlArgs)) :
              Content(c, sqlCfg.column_names) # <<>>}

\* C28: every written record has at least 2 messages, the last with the
\* assistant's role and non-empty content and all before it with the role
\* user; only rows with content and with non-empty context get a record.
C28_RecordShape ==
    \A ex \in Written :
        /\ Len(ex.messages) >= 2
        /\ ex.messages[Len(ex.messages)].role = "model"
        /\ ex.messages[Len(ex.messages)].content # <<>>
        /\ \A i \in 1..(Len(ex.messages) - 1) :
              ex.messages[i].role = "user" /\ ex.messages[i].content # <<>>
        /\ \E r \in Recordable : r.id = ex.post_id

\* A run over a table with a root of empty content and a reply of the user
\* with content: no record was written.
C28_Witness ==
    /\ pcQ = "done"
    /\ sqlCfg = CompleteSidecar
    /\ Len(sqlDb) = 2
    /\ Content(sqlDb[1], sqlCfg.column_names) = <<>>
    /\ sqlDb[2].author_nick = sqlArgs.user_nick
    /\ Content(sqlDb[2], sqlCfg.column_names) # <<>>
    /\ sqlOut = [exists |-> TRUE, rows |-> <<>>]

(***************************************************************************)
(* More properties of process_documents                                    *)
(***************************************************************************)
\* C29: a file whose reader fails is skipped: the loop goes on to the next
\* file with the output and the file's state entry as they were, the run
\* ends by saving the state, and the saved entry of a file that cannot be
\* read never matches the file, so that the next run tries it again.
C29_ReaderFailureSkipped ==
    /\ [][(pcD = "files" /\ todo # <<>> /\ disk[Head(todo)].paras = Unreadable)
             => /\ pcD' = "files"
                /\ todo' = Tail(todo)
                /\ outFileD' = outFileD
                /\ dstate' = dstate]_vars
    /\ [](pcD \in {"idle", "files"})
    /\ [](\A f \in DocFiles :
             (disk[f].present /\ disk[f].paras = Unreadable)
                => ~FileUnchanged(InfoOf(stateFileD.files, f), StatOf(disk[f])))

\* A run over a file that cannot be read and a file with text has ended: the
\* state is saved with an entry for the second file only, whose chunks are in
\* the output.
C29_Witness ==
    /\ pcD = "idle"
    /\ settled
    /\ stateFileD.exists
    /\ \E f, g \in DocFiles :
          /\ disk[f].present /\ disk[f].paras = Unreadable
          /\ f \notin DOMAIN stateFileD.files
          /\ disk[g].present /\ g \in DOMAIN stateFileD.files
          /\ \E i \in 1..Len(outFileD) : outFileD[i].source = g

\* C21: a state file that holds no valid state is taken as no prior state:
\* no run of process_documents leaves by an exception.
C21_BadStateNotFatal == pcD # "aborted"

(***************************************************************************)
(* Properties of _fetch_tweets_since                                       *)
(***************************************************************************)
RECURSIVE Flatten(_)
Flatten(pages) == IF pages = <<>> THEN <<>> ELSE Head(pages) \o Flatten(Tail(pages))

\* The step is the handling of a rate-limit answer.
RateLimitStep == pcF = "loop" /\ pcF' = "sleep"

\* C30: a rate-limit answer makes the loop sleep at least 5 seconds and ask
\* for the same page again: every request after a 429 carries the token of
\* the request before it, the pages answered are the pages of the remote in
\* order without a gap, and the items yielded are those pages' items, each
\* once.
C30_RateLimitRetriesSamePage ==
    /\ [][RateLimitStep =>
             /\ waits' # <<>>
             /\ waits'[Len(waits')] >= 5
             /\ next_token' = next_token
             /\ yielded' = yielded]_vars
    /\ [](\A i \in 1..(Len(requests) - 1) :
             requests[i].status = 429 => requests[i + 1].token = requests[i].token)
    /\ [](LET answered == SelectSeq(requests, LAMBDA r : r.status = 200)
          IN  /\ \A i \in 1..Len(answered) : PageOf(answered[i].token) = i
              /\ yielded = Flatten(SubSeq(fRemote, 1, Len(answered)))
              /\ \A i, j \in 1..Len(yielded) : i # j => yielded[i] # yielded[j])

\* The second page was asked for, answered with a rate limit whose reset time
\* has passed, asked for again and answered, and the loop went on to the
\* third page.
C30_Witness ==
    /\ Len(requests) >= 4
    /\ requests[1] = [token |-> 0, status |-> 200]
    /\ requests[2] = [token |-> 2, status |-> 429]
    /\ requests[3] = [token |-> 2, status |-> 200]
    /\ requests[4] = [token |-> 3, status |-> 200]
    /\ waits = <<5>>
    /\ yielded = <<1, 2, 3, 4, 5, 6>>

(***************************************************************************)
(* Properties of process_archive                                           *)
(***************************************************************************)
\* The records of the primary and of the eval output.
WrittenA == Range(aOut.rows) \cup Range(aEval.rows)

\* The text begins with "RT @" followed by a handle.
BeginsWithRetweet(t) == HasAt(t, 1, T_RTAt) /\ Len(t) >= 5 /\ IsWordChar(t[5])

\* C22: no item whose text begins with the retweet marker and a handle has
\* its example in the primary or in the eval output.
C22_RetweetsDropped ==
    \A i \in 1..Len(aItems) :
        (aItems[i].kind = "tweet" /\ BeginsWithRetweet(aItems[i].text))
            => \A row \in WrittenA :
                   ~(/\ row.tweet_id = aItems[i].id
                     /\ row.messages[Len(row.messages)].content = CleanText(aItems[i].text))

\* C23: every record written has at least two messages and ends on the
\* assistant role.
C23_TwoMessagesAssistantLast ==
    \A row \in WrittenA :
        /\ Len(row.messages) >= 2
        /\ row.messages[Len(row.messages)].role = RoleAssistant

\* C24: the run is left by an exception only when the source is missing or
\* of an unsupported type, never because of one item.
C24_OnlySourceAborts == pcA = "aborted" => aSrc \in {"missing", "unsupported"}

\* C26: the chain built for a reply holds no item twice.
C26_ChainWithoutRepeat ==
    (pcA \in {"build", "done"} /\ aOpts.dialog) =>
        \A k \in 1..Len(aRows) :
            aKept[k].in_reply_to_id # 0 =>
                LET chain == DialogChain(aKept[k], ByIdStr(aUnified), 1)
                IN  \A i, j \in 1..Len(chain) : i # j => chain[i] # chain[j]

\* C31: the fetch loop terminates for every remote behaviour.
C31_FetchTerminates == <>(pcF = "done")

(***************************************************************************)
(* More properties of unify_datasets                                       *)
(***************************************************************************)
\* C32: a dedup key is registered only for a record that is kept: during the
\* loop the registered keys are the keys of the kept records, and a record
\* that survives normalisation and the filters is dropped only when an
\* earlier survivor has its key.
C32_KeyOnlyWhenKept ==
    (pcU = "loop" /\ ~unified.exists) =>
        /\ seen_hashes = {HashForDedup(kept[k].messages) : k \in 1..Len(kept)}
        /\ \A i \in 1..(idx - 1) :
              (/\ RowSurvives(all_rows[i], opts.drop_generic_prompts)
               /\ \A j \in 1..(i - 1) :
                     RowSurvives(all_rows[j], opts.drop_generic_prompts) =>
                         HashForDedup(NormMessages(j)) # HashForDedup(NormMessages(i)))
                  => \E k \in 1..Len(kept) : kept[k].messages = NormMessages(i)

\* A record dropped by the generic-prompt filter, or rejected, is followed by
\* a record with the same key, and the second one is kept.
C32_Witness ==
    /\ pcU = "loop" /\ ~unified.exists
    /\ idx = 3
    /\ Len(all_rows) = 2
    /\ ~RowRejected(all_rows[1])
    /\ RowGeneric(all_rows[1], opts.drop_generic_prompts)
    /\ 2 \in Survivors
    /\ HashForDedup(NormMessages(1)) = HashForDedup(NormMessages(2))
    /\ Len(kept) = 1
    /\ kept[1].messages = NormMessages(2)

\* C33: the retweet check rejects a record only when its final assistant
\* turn starts with "RT @" (in any case of the letters).
C33_RetweetCheckNeedsMarker ==
    \A i \in 1..Len(all_rows) :
        (/\ pcU = "loop" /\ i < idx
         /\ IsList(all_rows[i]) /\ ~RowRaises(all_rows[i])
         /\ IsRetweetRow(CleanMessages(all_rows[i].messages)))
            => LET cleaned == CleanMessages(all_rows[i].messages)
               IN  StartsWith(Lower(Strip(cleaned[Len(cleaned)].content)), RtAt)

\* The records the run has to write, in input order: of the survivors that
\* share a key the earliest one.
RECURSIVE FirstSurvivorsFrom(_)
FirstSurvivorsFrom(i) ==
    IF i > Len(all_rows) THEN <<>>
    ELSE (IF /\ RowSurvives(all_rows[i], opts.drop_generic_prompts)
             /\ \A j \in 1..(i - 1) :
                   RowSurvives(all_rows[j], opts.drop_generic_prompts) =>
                       DedupKey(NormMessages(j)) # DedupKey(NormMessages(i))
          THEN <<[messages |-> NormMessages(i)]>> ELSE <<>>)
            \o FirstSurvivorsFrom(i + 1)

\* C34: the records written are the same whatever the shuffle option and the
\* seed: with shuffle off they are the survivors in input order, with shuffle
\* on a permutation of them that is a function of the survivors and the seed.
C34_ShufflePermutes ==
    unified.exists =>
        LET e == FirstSurvivorsFrom(1)
        IN  /\ Len(unified.rows) = Len(e)
            /\ Range(unified.rows) = Range(e)
            /\ ~opts.shuffle => unified.rows = e
            /\ opts.shuffle => unified.rows = Shuffle(e, opts.seed)

\* A run with shuffle on wrote two records in another order than the input's.
C34_Witness ==
    /\ unified.exists
    /\ opts.shuffle
    /\ Len(unified.rows) = 2
    /\ unified.rows # FirstSurvivorsFrom(1)
    /\ Range(unified.rows) = Range(FirstSurvivorsFrom(1))

\* C35: a state entry is removed only when delete_missing is set and the
\* file of the entry is no longer on disk.
C35_PruneOnlyMissing ==
    [][\A f \in DOMAIN stateFileD.files :
          f \notin DOMAIN stateFileD'.files => (dopts.delete_missing /\ ~disk[f].present)]_vars

\* C38: while the tree holds one file that was written once, no run appends
\* a line that the output file already holds, also after a run was killed
\* before it saved the state and after the state file was lost.
C38_NoSecondAppend ==
    [][(edits = 1 /\ edits' = 1) =>
          \A k \in (Len(outFileD) + 1)..Len(outFileD') :
              outFileD'[k] \notin Range(outFileD)]_vars

\* C36: with every required column mapped the run is never left by an
\* exception: a row without a title, or with a NULL title or body,
\* contributes the text it has.
C36_NullNeverAborts == (RequiredCols \subseteq sqlCfg.column_names) => pcQ # "raised"

(***************************************************************************)
(* More properties of sync_tweets                                          *)
(***************************************************************************)
\* C37: the checkpoint saved by a run whose fetch was cut short by a request
\* failure leaves every remote tweet that passes the filters and is not in
\* the output inside the window of the next fetch.
C37_CheckpointKeepsUnfetched ==
    [][(pcS = "save" /\ stateFile' # stateFile /\ fetch_failed) =>
          \A i \in 1..Len(remote) :
              (~FilteredOut(remote[i]) /\ remote[i].id \notin ScanExistingIds(outFile'))
                  => remote[i].created_at >= LoadStartTime(stateFile')]_vars

\* C39: every record a run appends is a line of its own that parses, also
\* when the file ended with the partial line of a killed run.
C39_AppendedLinesWhole ==
    [][(pcS = "append" /\ pcS' = "save") =>
          \A e \in 1..Len(new_examples) :
              new_examples[e].tweet_id \in ScanExistingIds(outFile')]_vars

\* The loop of unify_datasets over rows, from kept and seen.
RECURSIVE UnifyRows(_, _, _, _)
UnifyRows(rows, drop, kept_rows, seen) ==
    IF rows = <<>> THEN kept_rows
    ELSE LET row == Head(rows)
         IN  UnifyRows(Tail(rows), drop,
                       IF RowRejected(row) \/ RowGeneric(row, drop) \/ RowDuplicate(row, seen)
                       THEN kept_rows
                       ELSE Append(kept_rows, [messages |-> NormalizeRow(row).messages]),
                       SeenAfter(seen, row, drop))

\* The file the run wrote, read as the input of a second run.
OutputAsInput == [i \in 1..Len(unified.rows) |-> Row(unified.rows[i].messages)]

\* C40: with shuffle off, a run over the file that a run wrote, with the same
\* options, writes the same records in the same order.
C40_Idempotent ==
    (unified.exists /\ ~opts.shuffle) =>
        UnifyRows(OutputAsInput, opts.drop_generic_prompts, <<>>, {}) = unified.rows

====
